---- MODULE Spec2Model ----
(***************************************************************************)
(* AI Umpire: the upload handler (server.js), the four-stage analysis      *)
(* pipeline with its decision cache (umpireAgent.js), the frame directory  *)
(* handling (utils/videoProcessor.js) and the rules database               *)
(* (sportsRules.js).                                                       *)
(*                                                                         *)
(* JavaScript runs one callback at a time: every action below is the code  *)
(* that runs between two awaits of one request; the requests in flight     *)
(* interleave at the awaits.  Texts are strings, searched by substring as  *)
(* String.prototype.includes does.                                         *)
(***************************************************************************)
EXTENDS Integers, Sequences, FiniteSets, TLC

(***************************************************************************)
(* Bounds of the model.                                                    *)
(***************************************************************************)
\* request slots served at the same time under SpecConc
ConcReqs == 2
\* uploads accepted during one run of the process under Spec
MaxUploads == 2
\* uploads accepted during one run of the process under SpecConc
ConcUploads == 3
\* frames ffmpeg writes for one video under Spec
MaxVideoFrames == 2
\* fragments a decision text is made of under SpecExtract
MaxWords == 3
\* pieces of a sport identifier under SpecRules
MaxSportWords == 2
\* fragments a decision text is made of under SpecConfidence
MaxConfWords == 3
\* pieces a sport identifier is made of under SpecKeys
MaxKeyWords == 2
\* analyses started on the page under SpecUI
MaxAnalyses == 2
\* uploads under SpecIso
IsoUploads == 2
\* tokens a decision text is made of under SpecCalls
MaxCallWords == 3
\* frames ffmpeg writes for one video under SpecLong, and its uploads
LongVideoFrames == 9
LongUploads == 1

(***************************************************************************)
(* Strings.                                                                *)
(***************************************************************************)
LowerAlpha == "abcdefghijklmnopqrstuvwxyz"
UpperAlpha == "ABCDEFGHIJKLMNOPQRSTUVWXYZ"

CharAt(s, k) == SubSeq(s, k, k)

\* the letter-to-letter tables of the two case conversions
UpperOf == [c \in {CharAt(LowerAlpha, k) : k \in 1..26} |->
              CharAt(UpperAlpha, CHOOSE k \in 1..26 : CharAt(LowerAlpha, k) = c)]
LowerOf == [c \in {CharAt(UpperAlpha, k) : k \in 1..26} |->
              CharAt(LowerAlpha, CHOOSE k \in 1..26 : CharAt(UpperAlpha, k) = c)]

RECURSIVE MapChars(_, _)
MapChars(s, table) ==
  IF Len(s) = 0 THEN ""
  ELSE LET c == CharAt(s, 1)
       IN (IF c \in DOMAIN table THEN table[c] ELSE c) \o MapChars(SubSeq(s, 2, Len(s)), table)

toUpperCase(s) == MapChars(s, UpperOf)
toLowerCase(s) == MapChars(s, LowerOf)

\* String.prototype.includes
includes(text, tok) ==
  \E k \in 1..(Len(text) - Len(tok) + 1) : SubSeq(text, k, k + Len(tok) - 1) = tok

RECURSIVE JoinWords(_)
JoinWords(ws) == IF Len(ws) = 0 THEN "" ELSE Head(ws) \o JoinWords(Tail(ws))

RECURSIVE join(_, _)
\* Array.prototype.join
join(parts, sep) ==
  IF parts = <<>> THEN ""
  ELSE IF Len(parts) = 1 THEN parts[1]
  ELSE parts[1] \o sep \o join(Tail(parts), sep)

(***************************************************************************)
(* sportsRules.js: the decisions each profile lists, and the lookup.       *)
(***************************************************************************)
ProfileKeys == {"cricket", "football", "tennis", "basketball", "general"}

\* the profiles; rules holds the entries of the rules object in declaration
\* order, each rule text and critical point shortened to its first words;
\* criticalPoints is empty for a profile that does not define it
sportsRules ==
  [k \in ProfileKeys |->
     CASE k = "cricket" ->
            [name |-> "Cricket",
             decisions |-> <<"OUT", "NOT OUT", "WIDE", "NO BALL", "SIX", "FOUR">>,
             rules |-> <<<<"bowled", "BATSMAN IS OUT if the ball hits the stumps">>,
                         <<"caught", "BATSMAN IS OUT if the ball touches the bat">>,
                         <<"lbw", "BATSMAN IS OUT if: (1) Ball hits the pad">>,
                         <<"stumped", "BATSMAN IS OUT if wicket-keeper breaks the stumps">>,
                         <<"runOut", "BATSMAN IS OUT if fielder breaks the stumps">>,
                         <<"notOut", "BATSMAN IS NOT OUT if: ball misses stumps">>,
                         <<"wide", "WIDE BALL if ball passes clearly outside">>,
                         <<"noBall", "NO BALL if: bowler's front foot crosses">>>>,
             keyElements |-> <<"ball trajectory", "bat contact", "stumps", "bails",
                               "wicket-keeper", "fielders", "crease lines",
                               "batsman position", "pad contact", "catching">>,
             criticalPoints |-> <<"For CAUGHT: Did ball definitely touch bat?",
                                  "For BOWLED: Did ball hit the stumps?",
                                  "For LBW: Did ball hit pad first?",
                                  "For STUMPED/RUN OUT: Was batsman's foot outside crease?",
                                  "When in doubt between two decisions">>]
       [] k = "football" ->
            [name |-> "Football/Soccer",
             decisions |-> <<"GOAL", "NO GOAL", "OFFSIDE", "FOUL", "PENALTY",
                             "CORNER", "THROW-IN">>,
             rules |-> <<<<"goal", "Ball completely crosses goal line">>,
                         <<"offside", "Player in offside position">>,
                         <<"foul", "Kicking, tripping, jumping at">>,
                         <<"penalty", "Direct free kick offense">>,
                         <<"handball", "Deliberately handling ball">>>>,
             keyElements |-> <<"ball", "goal", "goal line", "players", "goalkeeper",
                               "penalty area", "offside line">>,
             criticalPoints |-> <<>>]
       [] k = "tennis" ->
            [name |-> "Tennis",
             decisions |-> <<"IN", "OUT", "FAULT", "ACE", "LET", "WINNER">>,
             rules |-> <<<<"in", "Ball lands within the court boundaries">>,
                         <<"out", "Ball lands outside court boundaries">>,
                         <<"fault", "Serve that doesn't land in service box">>,
                         <<"let", "Serve that touches net">>,
                         <<"ace", "Serve that opponent cannot touch">>,
                         <<"winner", "Shot that opponent cannot return">>>>,
             keyElements |-> <<"ball", "court lines", "net", "service box", "player",
                               "racket">>,
             criticalPoints |-> <<>>]
       [] k = "basketball" ->
            [name |-> "Basketball",
             decisions |-> <<"SCORE", "FOUL", "VIOLATION", "OUT OF BOUNDS",
                             "SHOT CLOCK", "THREE POINTER">>,
             rules |-> <<<<"score", "Ball goes through hoop from above">>,
                         <<"foul", "Illegal personal contact">>,
                         <<"traveling", "Moving with ball without dribbling">>,
                         <<"doubleRibble", "Dribbling with both hands">>,
                         <<"outOfBounds", "Ball or player touches boundary lines">>,
                         <<"threePointer", "Shot made from behind three-point line">>>>,
             keyElements |-> <<"ball", "hoop", "court lines", "three-point line",
                               "players", "shot clock">>,
             criticalPoints |-> <<>>]
       [] k = "general" ->
            [name |-> "General Sports",
             decisions |-> <<"VALID", "INVALID", "FOUL", "LEGAL", "ILLEGAL">>,
             rules |-> <<<<"general", "Analyze the sporting action">>,
                         <<"contact", "Determine if contact is legal or illegal">>,
                         <<"boundary", "Check if ball/player is within bounds">>,
                         <<"scoring", "Determine if a scoring attempt is successful">>>>,
             keyElements |-> <<"ball", "players", "boundaries", "equipment",
                               "playing surface">>,
             criticalPoints |-> <<>>]]

\* sportsRules is an object literal: a key it does not own is looked up in
\* Object.prototype, whose all-lower-case property names are these two
ObjectPrototypeKeys == {"constructor", "__proto__"}

\* the value an inherited key yields: the function Object, the object
\* Object.prototype (truthy both, and no profile)
ObjectPrototype(k) == [inherited |-> k]

\* nothing looked up
NoRules == [name |-> "", decisions |-> <<>>]

\* nothing formatted
NoFormat == [threw |-> FALSE, text |-> ""]

\* sportsRules[sportKey] || sportsRules.general
getRulesForSport(sport) ==
  LET sportKey == toLowerCase(sport)
  IN IF sportKey \in ProfileKeys THEN sportsRules[sportKey]
     ELSE IF sportKey \in ObjectPrototypeKeys THEN ObjectPrototype(sportKey)
     ELSE sportsRules["general"]

\* Object.entries(rules.rules).forEach(([key, value]) => rulesText += ...)
RuleLines(entries) ==
  join([i \in 1..Len(entries) |->
          "- " \o toUpperCase(entries[i][1]) \o ": " \o entries[i][2] \o "\n"], "")

\* formatRulesForAI: the text, or the TypeError of rules.decisions.join when
\* the lookup gave an inherited member, which has no decisions (the bullet
\* of a critical point is written *)
formatRulesForAI(sport) ==
  LET rules == getRulesForSport(sport)
  IN IF "decisions" \notin DOMAIN rules
     THEN [threw |-> TRUE, text |-> ""]
     ELSE [threw |-> FALSE,
           text |-> "Sport: " \o rules.name \o "\n\n"
                    \o "Possible Decisions: " \o join(rules.decisions, ", ") \o "\n\n"
                    \o "Key Elements to Look For: " \o join(rules.keyElements, ", ") \o "\n\n"
                    \o "Rules:\n"
                    \o RuleLines(rules.rules)
                    \o (IF rules.criticalPoints # <<>>
                        THEN "\nCRITICAL DECISION POINTS:\n"
                               \o join([i \in 1..Len(rules.criticalPoints) |->
                                          "* " \o rules.criticalPoints[i] \o "\n"], "")
                        ELSE "")]

(***************************************************************************)
(* umpireAgent.js: the parsers of the Stage 4 text.                        *)
(***************************************************************************)
\* mutant: the patterns searched in the text as it is, not lower-cased
extractConfidenceLevel_CaseSensitive(decisionText) ==
  LET text == decisionText
  IN IF includes(text, "high confidence") \/ includes(text, "confidence: high") THEN "High"
     ELSE IF includes(text, "medium confidence") \/ includes(text, "confidence: medium") THEN "Medium"
     ELSE IF includes(text, "low confidence") \/ includes(text, "confidence: low") THEN "Low"
     ELSE "Medium"

\* mutant: no default, a text without a pattern has no confidence
extractConfidenceLevel_NoDefault(decisionText) ==
  LET text == toLowerCase(decisionText)
  IN IF includes(text, "high confidence") \/ includes(text, "confidence: high") THEN "High"
     ELSE IF includes(text, "medium confidence") \/ includes(text, "confidence: medium") THEN "Medium"
     ELSE IF includes(text, "low confidence") \/ includes(text, "confidence: low") THEN "Low"
     ELSE "undefined"

\* mutant: the level whose pattern stands first in the text
extractConfidenceLevel_FirstInText(decisionText) ==
  LET text == toLowerCase(decisionText)
      at(pat) == {k \in 1..(Len(text) - Len(pat) + 1) : SubSeq(text, k, k + Len(pat) - 1) = pat}
      high == at("high confidence") \cup at("confidence: high")
      medium == at("medium confidence") \cup at("confidence: medium")
      low == at("low confidence") \cup at("confidence: low")
      all == high \cup medium \cup low
      first == CHOOSE k \in all : \A j \in all : k <= j
  IN IF all = {} THEN "Medium"
     ELSE IF first \in high THEN "High"
     ELSE IF first \in medium THEN "Medium"
     ELSE "Low"

extractConfidenceLevel(decisionText) ==
  LET text == toLowerCase(decisionText)
  IN IF includes(text, "high confidence") \/ includes(text, "confidence: high") THEN "High"
     ELSE IF includes(text, "medium confidence") \/ includes(text, "confidence: medium") THEN "Medium"
     ELSE IF includes(text, "low confidence") \/ includes(text, "confidence: low") THEN "Low"
     ELSE "Medium"

\* mutant: the short token of a pair listed before the long one
decisions_ShortFirst ==
  << "NOT OUT", "OUT",
     "GOAL", "NO GOAL",
     "NO FOUL", "FOUL",
     "NO SCORE", "SCORE",
     "INVALID", "VALID",
     "ILLEGAL", "LEGAL",
     "FAULT", "LET", "PENALTY", "FREE KICK" >>

\* the fixed list of extractFinalCall, in the order the loop scans it
decisions ==
  << "NOT OUT", "OUT",
     "NO GOAL", "GOAL",
     "NO FOUL", "FOUL",
     "NO SCORE", "SCORE",
     "INVALID", "VALID",
     "ILLEGAL", "LEGAL",
     "FAULT", "LET", "PENALTY", "FREE KICK" >>

Fallback == "DECISION REQUIRED"

\* mutant: the loop without the fallback return
FirstMatch_NoFallback(text, list) ==
  IF \E k \in 1..Len(list) : includes(text, list[k])
  THEN list[CHOOSE k \in 1..Len(list) :
              /\ includes(text, list[k])
              /\ \A j \in 1..(k - 1) : ~includes(text, list[j])]
  ELSE "undefined"

\* mutant: the token that occurs first in the text, not first in the list
FirstMatch_ByTextPosition(text, list) ==
  LET at(tok) == {k \in 1..(Len(text) - Len(tok) + 1) : SubSeq(text, k, k + Len(tok) - 1) = tok}
      first(tok) == CHOOSE k \in at(tok) : \A j \in at(tok) : k <= j
  IN IF \E k \in 1..Len(list) : includes(text, list[k])
     THEN list[CHOOSE k \in 1..Len(list) :
                 /\ includes(text, list[k])
                 /\ \A j \in 1..Len(list) :
                      includes(text, list[j]) =>
                        \/ first(list[k]) < first(list[j])
                        \/ first(list[k]) = first(list[j]) /\ k <= j]
     ELSE Fallback

\* for (const decision of decisions) if (text.includes(decision)) return decision
FirstMatch(text, list) ==
  IF \E k \in 1..Len(list) : includes(text, list[k])
  THEN list[CHOOSE k \in 1..Len(list) :
              /\ includes(text, list[k])
              /\ \A j \in 1..(k - 1) : ~includes(text, list[j])]
  ELSE Fallback

\* mutant: the cricket branch tests OUT before NOT OUT
extractFinalCall_OutFirst(decisionText, sport) ==
  LET text == toUpperCase(decisionText)
  IN IF sport = "cricket" /\ includes(text, "OUT") THEN "OUT"
     ELSE IF sport = "cricket" /\ includes(text, "NOT OUT") THEN "NOT OUT"
     ELSE FirstMatch(text, decisions)

\* mutant: cricket answers from its own two tokens only
extractFinalCall_CricketOnly(decisionText, sport) ==
  LET text == toUpperCase(decisionText)
  IN IF sport = "cricket" /\ includes(text, "NOT OUT") THEN "NOT OUT"
     ELSE IF sport = "cricket" /\ includes(text, "OUT") THEN "OUT"
     ELSE IF sport = "cricket" THEN Fallback
     ELSE FirstMatch(text, decisions)

extractFinalCall(decisionText, sport) ==
  LET text == toUpperCase(decisionText)
  IN IF sport = "cricket" /\ includes(text, "NOT OUT") THEN "NOT OUT"
     ELSE IF sport = "cricket" /\ includes(text, "OUT") THEN "OUT"
     ELSE FirstMatch(text, decisions)


\* generateLiveDecision: the record built from the Stage 4 text (the
\* timestamp field, a clock reading, is left out; id stands for the identity
\* of the object)
generateLiveDecision(id, decision, sport, videoMetadata) ==
  [id |-> id,
   sport |-> sport,
   videoDuration |-> videoMetadata.duration,
   decision |-> decision,
   processedAsFullVideo |-> TRUE,
   hasAudio |-> videoMetadata.hasAudio,
   confidence |-> extractConfidenceLevel(decision),
   finalCall |-> extractFinalCall(decision, sport)]

NoDecision == [id |-> 0]
NoMetadata == [duration |-> 0, hasAudio |-> FALSE]

\* const cacheKey = `${path.basename(videoPath)}_${sport}`
CacheKey(name, sport) == name \o "_" \o sport

\* extractKeyFrames(videoPath, 8): .slice(0, maxFrames)
KeyFrameCap == 8
Min(a, b) == IF a < b THEN a ELSE b

(***************************************************************************)
(* umpireAgent.js: the prompt of Stage 3.                                  *)
(***************************************************************************)
\* mutant: the frames whose analysis failed left out of the summary
framesSummary_FailedLeftOut(visionAnalyses) ==
  LET kept == SelectSeq(visionAnalyses, LAMBDA frame : frame.error = "")
  IN join([i \in 1..Len(kept) |->
             "Frame " \o ToString(kept[i].frameNumber) \o ": " \o kept[i].analysis],
          "\n\n")

\* visionAnalyses.map(frame => `Frame ${frame.frameNumber}: ${frame.analysis}`).join('\n\n')
framesSummary(visionAnalyses) ==
  join([i \in 1..Len(visionAnalyses) |->
          "Frame " \o ToString(visionAnalyses[i].frameNumber) \o ": "
             \o visionAnalyses[i].analysis],
       "\n\n")

VisionHeading == "VISION API ANALYSIS (Frame Details):\n"
VideoHeading == "\n\nVIDEO API ANALYSIS (Complete Sequence):\n"
DecisionHeading == "\n\nINTEGRATED DECISION:"

\* the template of applyRulesWithMultimodal, its fixed paragraphs shortened
\* to their headings
MultimodalPrompt(visionAnalyses, videoText) ==
  VisionHeading \o framesSummary(visionAnalyses) \o VideoHeading \o videoText
     \o DecisionHeading

(***************************************************************************)
(* Inputs.                                                                 *)
(***************************************************************************)
\* Spec serves one request at a time (a slot takes the next upload when its
\* response is sent); SpecConc serves ConcReqs of them at once
Reqs == {1}
Names == {"video-1.mp4"}
Sports == {"cricket", "football"}
Metadatas == {[duration |-> 5, hasAudio |-> TRUE], [duration |-> 12, hasAudio |-> FALSE]}
Texts == {"NOT OUT. Confidence: High", "no goal, low confidence", "unclear"}
\* how one iteration of the Stage 1 loop can end
VisionOutcomes == {"ok", "readFailed", "callFailed"}
\* what the video model answers in Stage 2
VideoTexts == {"bat and ball in one sequence", "no clear view of the ball"}

ConcSlots == 1..ConcReqs
ConcNames == {"video-1.mp4"}
ConcSports == {"cricket"}
ConcMetadatas == {[duration |-> 5, hasAudio |-> TRUE]}
ConcTexts == {"OUT"}
ConcVideoTexts == {"bat and ball in one sequence"}
\* SpecIso: each frame's vision call answers
IsoOutcomes == {"ok"}
\* SpecLong: a long video, each frame's vision call answers or fails
LongOutcomes == {"ok", "callFailed"}
\* frames ffmpeg writes for one video under SpecConc
ConcVideoFrames == 1

Words == {"NOT ", "not ", "OUT", "Out", "NO ", "GOAL", "foul", "SCORE",
          "IN", "valid", "IL", "LEGAL", "LET", "ok. "}
ExTexts == {JoinWords(ws) : ws \in UNION {[1..n -> Words] : n \in 0..MaxWords}}
ExSports == {"cricket", "football", "general", "Cricket"}
ExMetadata == [duration |-> 5, hasAudio |-> TRUE]

\* sport identifiers SpecRules looks up, built from these pieces
SportWords == {"cricket", "Cricket", "FOOTBALL", "foot", "ball", "basket", "tennis",
               "general", "General", "constructor", "__proto__", "chess"}
RuleSports == {JoinWords(ws) : ws \in UNION {[1..n -> SportWords] : n \in 0..MaxSportWords}}

\* decision texts SpecConfidence parses, built from these fragments
ConfWords == {"high", "HIGH", "High", "medium", "low", " confidence", " CONFIDENCE",
              "Confidence: ", " confidence: ", "confidence:", "very "}
ConfTexts == {JoinWords(ws) : ws \in UNION {[1..n -> ConfWords] : n \in 0..MaxConfWords}}

\* decision texts SpecCalls parses, built from tokens of the priority list
\* in either case and order
CallWords == {"NOT ", "OUT", "NO ", "GOAL", "LET", "foul", "in", "valid"}
CallTexts == {JoinWords(ws) : ws \in UNION {[1..n -> CallWords] : n \in 0..MaxCallWords}}

\* arguments of processVideo under SpecKeys: base names as multer builds them
\* (the extension is the client's, path.extname(originalname)) and sport
\* identifiers made of pieces
KeyExts == {".mp4", ".mp4_a"}
KeyNames == {"video-" \o ToString(n) \o ext : n \in 1..2, ext \in KeyExts}
KeyWords == {"a", "b", "_b"}
KeySports == {JoinWords(ws) : ws \in UNION {[1..n -> KeyWords] : n \in 1..MaxKeyWords}}
KeyArgs == KeyNames \X KeySports

\* answer of GET /api/health before any request to it
NoHealth == [status |-> 0, geminiConfigured |-> FALSE]

\* multer's fileFilter and the types a client may send
allowedMimes == {"video/mp4", "video/avi", "video/mov", "video/wmv", "video/quicktime"}
Mimes == {"video/mp4", "video/quicktime", "image/png"}
ErrFileType == "Invalid file type. Only video files are allowed."

\* messages of the errors the collaborators raise
ErrMetadata == "ffprobe failed"
ErrPrepare == "ENOENT: no such file or directory"
ErrEnsureDir == "EACCES: permission denied, mkdir"
ErrFfmpeg == "ffmpeg exited with code 1"
ErrFrameRead == "ENOENT: no such file or directory, open keyframe"
ErrVision == "vision model request failed"
ErrStage2 == "video model request failed"
ErrStage3 == "multimodal model request failed"
ErrStage4 == "live model request failed"
ErrRemove == "EBUSY: resource busy or locked, unlink"

(***************************************************************************)
(* State.                                                                  *)
(***************************************************************************)
VARIABLES
  pc,            \* per slot: where the request's handler is waiting
  vName,         \* per slot: base name of req.file.path
  vSport,        \* per slot: sport passed to processVideo
  reqSport,      \* per slot: req.body.sport ("" when the field is absent or empty)
  metadata,      \* per slot: result of getVideoMetadata
  nFrames,       \* per slot: framePaths.length
  frameDir,      \* per slot: the keyframes_<uuid> directory: none, exists, removed
  idx,           \* per slot: loop index of Stage 1, then of cleanupFrames
  analyses,      \* per slot: the array analyzeFramesWithVision builds
  finalDecision, \* per slot: the Decision generateLiveDecision built
  ret,           \* per slot: the Decision processVideo returned
  err,           \* per slot: message of the error the handler caught
  status,        \* per slot: HTTP status sent (0: none yet)
  body,          \* per slot: decision of the 200 body
  details,       \* per slot: details of the 500 body
  serial,        \* per slot: number of the upload the slot serves
  analysisCache, \* UmpireAgent.analysisCache
  uploadsDir,    \* names of the files in uploads/
  nUploads,      \* uploads accepted so far
  trace,         \* history, per slot: steps of processVideo entered, in order
  modelCalls,    \* history, per slot: generateContent calls made
  seenReturned,  \* history, per slot: ids already returned for the key at the call
  returnedLog,   \* history: <<key, id>> of every Decision processVideo returned
  storedLog,     \* history: <<key, id>> of every analysisCache.set
  videoAnalysis,    \* per slot: the text analyzeVideoDirectly returned, until Stage 3 ends
  multimodalPrompt, \* per slot: the prompt of the Stage 3 call in flight
  callLog,          \* history, per slot: the generateContent calls made, in order
  dirRemovals,      \* history, per slot: outcome of each fs.remove(frameDir)
  uploadRemovals,   \* history, per slot: outcome of each fs.remove of the upload
  apiKey,        \* process.env.GEMINI_API_KEY is set
  server,        \* the server process: loading, listening, crashed
  health,        \* last answer of GET /api/health
  exRules,       \* SpecRules: what getRulesForSport returned
  exFormat,      \* SpecRules: what formatRulesForAI returned or threw
  exArgs,        \* SpecKeys: two <<base name, sport>> pairs
  exKeys,        \* SpecKeys: the cache keys derived from them
  exText,        \* SpecExtract: decision text
  exSport,       \* SpecExtract: sport
  exDecision,    \* SpecExtract: the Decision parsed from it
  proc,          \* SpecShutdown: the node process: running, exited
  signal,        \* SpecShutdown: the signal received ("" before)
  cleanups,      \* SpecShutdown: the cleanupTempFiles calls made, each where it waits
  tempEntries,   \* SpecShutdown: entries of temp/, <<name, age in minutes>>
  uploadEntries, \* SpecShutdown: files of uploads/, <<name, age in minutes>>
  selectedFile,       \* SpecUI: this.selectedFile is a file (not null)
  analyzeBtnDisabled, \* SpecUI: analyzeBtn.disabled
  hidden,             \* SpecUI: the sections whose classList has 'hidden'
  stepClasses,        \* SpecUI: per processing step, its 'active'/'completed' classes
  timers,             \* SpecUI: pending setTimeout(animateStep), <<animation, currentStep>>
  uploadFetches,      \* SpecUI: analyses whose fetch of /api/upload-video is pending
  healthFetch,        \* SpecUI: the fetch of /api/health is pending
  nAnalyses,          \* SpecUI: analyzeVideo calls that went past the file test
  sectionShown,       \* history: showSection has been called
  sinceReset          \* history: resetInterface ran and no analyzeVideo started since

reqVars == <<pc, vName, vSport, reqSport, metadata, nFrames, frameDir, idx, analyses, finalDecision,
             ret, err, status, body, details, serial, trace, modelCalls, seenReturned,
             videoAnalysis, multimodalPrompt, callLog, dirRemovals, uploadRemovals>>
sharedVars == <<analysisCache, uploadsDir, nUploads, returnedLog, storedLog>>
exVars == <<exText, exSport, exDecision, exRules, exFormat, exArgs, exKeys>>
srvVars == <<apiKey, server, health>>
shutVars == <<proc, signal, cleanups, tempEntries, uploadEntries>>
uiVars == <<selectedFile, analyzeBtnDisabled, hidden, stepClasses, timers, uploadFetches,
            healthFetch, nAnalyses, sectionShown, sinceReset>>
vars == <<reqVars, sharedVars, exVars, srvVars, shutVars, uiVars>>

\* the shutdown and the page are not part of the specification
InitShutOff ==
  /\ proc = "running"
  /\ signal = ""
  /\ cleanups = <<>>
  /\ tempEntries = {}
  /\ uploadEntries = {}

InitUIOff ==
  /\ selectedFile = FALSE
  /\ analyzeBtnDisabled = TRUE
  /\ hidden = {}
  /\ stepClasses = [k \in {} |-> {}]
  /\ timers = {}
  /\ uploadFetches = {}
  /\ healthFetch = FALSE
  /\ nAnalyses = 0
  /\ sectionShown = FALSE
  /\ sinceReset = FALSE

InitSlots(R) ==
  /\ pc = [r \in R |-> "idle"]
  /\ vName = [r \in R |-> ""]
  /\ vSport = [r \in R |-> ""]
  /\ reqSport = [r \in R |-> ""]
  /\ metadata = [r \in R |-> NoMetadata]
  /\ nFrames = [r \in R |-> 0]
  /\ frameDir = [r \in R |-> "none"]
  /\ idx = [r \in R |-> 0]
  /\ analyses = [r \in R |-> <<>>]
  /\ finalDecision = [r \in R |-> NoDecision]
  /\ ret = [r \in R |-> NoDecision]
  /\ err = [r \in R |-> ""]
  /\ status = [r \in R |-> 0]
  /\ body = [r \in R |-> NoDecision]
  /\ details = [r \in R |-> ""]
  /\ serial = [r \in R |-> 0]
  /\ trace = [r \in R |-> <<>>]
  /\ modelCalls = [r \in R |-> 0]
  /\ seenReturned = [r \in R |-> {}]
  /\ videoAnalysis = [r \in R |-> ""]
  /\ multimodalPrompt = [r \in R |-> ""]
  /\ callLog = [r \in R |-> <<>>]
  /\ dirRemovals = [r \in R |-> <<>>]
  /\ uploadRemovals = [r \in R |-> <<>>]
  /\ analysisCache = << >>
  /\ uploadsDir = {}
  /\ nUploads = 0
  /\ returnedLog = {}
  /\ storedLog = {}

\* nothing parsed or looked up yet
InitEx ==
  /\ exText = ""
  /\ exSport = ""
  /\ exDecision = NoDecision
  /\ exRules = NoRules
  /\ exFormat = NoFormat
  /\ exArgs = <<>>
  /\ exKeys = <<>>

\* the module is loaded with the key set and app.listen has been called
InitListening ==
  /\ apiKey = TRUE
  /\ server = "listening"
  /\ health = NoHealth

Init ==
  /\ InitSlots(Reqs)
  /\ InitShutOff
  /\ InitUIOff
  /\ InitEx
  /\ InitListening


(***************************************************************************)
(* Helpers of the actions.                                                 *)
(***************************************************************************)
\* Map.prototype.set
MapSet(m, k, v) == [x \in (DOMAIN m) \cup {k} |-> IF x = k THEN v ELSE m[x]]

Key(r) == CacheKey(vName[r], vSport[r])

\* mutant: one session id for every call
sessionId_Fixed(r) == 1

\* const sessionId = uuidv4(): a fresh identifier at every call, written as
\* the serial number of the call in flight
sessionId(r) == serial[r]

\* path.join(this.tempDir, `keyframes_${sessionId}`)
outputDir(r) == "keyframes_" \o ToString(sessionId(r))

\* fs.remove(frameDir): the directory at that path is gone, for every
\* request whose frames are in it
RemoveDir(dir) ==
  [q \in DOMAIN frameDir |->
     IF frameDir[q] \in {"exists", "removed"} /\ outputDir(q) = dir THEN "removed"
     ELSE frameDir[q]]

\* multer's filename: 'video-' + uniqueSuffix + path.extname(originalname),
\* uniqueSuffix (Date.now() and a random number) written as the number of
\* the upload
Filename(n) == "video-" \o ToString(n) \o ".mp4"

\* an error thrown inside processVideo: its catch logs and rethrows, the
\* handler's catch takes it and starts removing the uploaded file
Throw(r, msg) ==
  /\ pc' = [pc EXCEPT ![r] = "catch"]
  /\ err' = [err EXCEPT ![r] = msg]

\* processVideo returns d to the handler, which starts removing the upload
Return(r, d) ==
  /\ pc' = [pc EXCEPT ![r] = "removeUpload"]
  /\ ret' = [ret EXCEPT ![r] = d]
  /\ returnedLog' = returnedLog \cup {<<Key(r), d.id>>}

\* the response is sent: the handler's locals are gone, the slot keeps the
\* response (and the name of the request's file, what became of its frame
\* directory and the removals made for it)
RespondWith(r, code, decision, text, caught) ==
  /\ pc' = [pc EXCEPT ![r] = "done"]
  /\ status' = [status EXCEPT ![r] = code]
  /\ body' = [body EXCEPT ![r] = decision]
  /\ details' = [details EXCEPT ![r] = text]
  /\ vSport' = [vSport EXCEPT ![r] = ""]
  /\ reqSport' = [reqSport EXCEPT ![r] = ""]
  /\ metadata' = [metadata EXCEPT ![r] = NoMetadata]
  /\ nFrames' = [nFrames EXCEPT ![r] = 0]
  /\ idx' = [idx EXCEPT ![r] = 0]
  /\ analyses' = [analyses EXCEPT ![r] = <<>>]
  /\ finalDecision' = [finalDecision EXCEPT ![r] = NoDecision]
  /\ ret' = [ret EXCEPT ![r] = NoDecision]
  /\ err' = [err EXCEPT ![r] = caught]
  /\ serial' = [serial EXCEPT ![r] = 0]
  /\ trace' = [trace EXCEPT ![r] = <<>>]
  /\ modelCalls' = [modelCalls EXCEPT ![r] = 0]
  /\ seenReturned' = [seenReturned EXCEPT ![r] = {}]
  /\ videoAnalysis' = [videoAnalysis EXCEPT ![r] = ""]
  /\ multimodalPrompt' = [multimodalPrompt EXCEPT ![r] = ""]
  /\ callLog' = [callLog EXCEPT ![r] = <<>>]

\* a response of the handler: after its catch the slot keeps the error caught
Respond(r, code, decision, text) ==
  RespondWith(r, code, decision, text, IF code = 500 THEN err[r] ELSE "")

(***************************************************************************)
(* POST /api/upload-video up to the first await of processVideo.           *)
(***************************************************************************)
\* mutant: the sport field passed on as it came
SportOf_NoDefault(bodySport) == bodySport

\* req.body.sport || 'general'
SportOf(bodySport) == IF bodySport = "" THEN "general" ELSE bodySport

\* mutant: the handler without its check of req.file
UploadVideo_NoFileCheck(r, names, sports, maxUploads) ==
  /\ server = "listening"
  /\ pc[r] \in {"idle", "done"}
  /\ nUploads < maxUploads
  /\ nUploads' = nUploads + 1
  /\ frameDir' = [frameDir EXCEPT ![r] = "none"]
  /\ dirRemovals' = [dirRemovals EXCEPT ![r] = <<>>]
  /\ uploadRemovals' = [uploadRemovals EXCEPT ![r] = <<>>]
  /\ UNCHANGED <<analysisCache, storedLog, exVars, srvVars, shutVars, uiVars>>
  /\ \/ \* the request has no file part: processVideo is called all the same
        /\ pc' = [pc EXCEPT ![r] = "metadata"]
        /\ vName' = [vName EXCEPT ![r] = ""]
        /\ vSport' = [vSport EXCEPT ![r] = "general"]
        /\ trace' = [trace EXCEPT ![r] = <<"metadata">>]
        /\ status' = [status EXCEPT ![r] = 0]
        /\ UNCHANGED <<uploadsDir, returnedLog, reqSport, serial, body, details, seenReturned,
                       err, metadata, nFrames, idx, analyses, finalDecision, modelCalls, callLog,
                       videoAnalysis, multimodalPrompt, ret>>
     \/ \* fileFilter: cb(new Error(...), false); multer passes the error to
        \* next(), no error middleware is registered and Express' default
        \* handler answers 500 (the error has no status); nothing is stored
        \* and the route handler is not called
        /\ \E mimetype \in Mimes \ allowedMimes :
             RespondWith(r, 500, NoDecision, "", ErrFileType)
        /\ vName' = [vName EXCEPT ![r] = ""]
        /\ UNCHANGED <<uploadsDir, returnedLog>>
     \/ \E mimetype \in Mimes \cap allowedMimes, name \in names, bodySport \in sports \cup {""} :
          LET sport == SportOf(bodySport)
              cacheKey == CacheKey(name, sport)
          IN /\ uploadsDir' = uploadsDir \cup {name}
             /\ vName' = [vName EXCEPT ![r] = name]
             /\ vSport' = [vSport EXCEPT ![r] = sport]
             /\ reqSport' = [reqSport EXCEPT ![r] = bodySport]
             /\ serial' = [serial EXCEPT ![r] = nUploads + 1]
             /\ status' = [status EXCEPT ![r] = 0]
             /\ body' = [body EXCEPT ![r] = NoDecision]
             /\ details' = [details EXCEPT ![r] = ""]
             /\ seenReturned' = [seenReturned EXCEPT ![r] =
                                   {p[2] : p \in {q \in returnedLog : q[1] = cacheKey}}]
             /\ err' = [err EXCEPT ![r] = ""]
             /\ UNCHANGED <<metadata, nFrames, idx, analyses, finalDecision, modelCalls, callLog,
                            videoAnalysis, multimodalPrompt>>
             /\ IF cacheKey \in DOMAIN analysisCache
                THEN \* return this.analysisCache.get(cacheKey)
                     /\ pc' = [pc EXCEPT ![r] = "removeUpload"]
                     /\ ret' = [ret EXCEPT ![r] = analysisCache[cacheKey]]
                     /\ returnedLog' = returnedLog \cup {<<cacheKey, analysisCache[cacheKey].id>>}
                     /\ UNCHANGED trace
                ELSE \* await this.videoProcessor.getVideoMetadata(videoPath)
                     /\ pc' = [pc EXCEPT ![r] = "metadata"]
                     /\ trace' = [trace EXCEPT ![r] = <<"metadata">>]
                     /\ UNCHANGED <<ret, returnedLog>>

UploadVideo(r, names, sports, maxUploads) ==
  /\ server = "listening"
  /\ pc[r] \in {"idle", "done"}
  /\ nUploads < maxUploads
  /\ nUploads' = nUploads + 1
  /\ frameDir' = [frameDir EXCEPT ![r] = "none"]
  /\ dirRemovals' = [dirRemovals EXCEPT ![r] = <<>>]
  /\ uploadRemovals' = [uploadRemovals EXCEPT ![r] = <<>>]
  /\ UNCHANGED <<analysisCache, storedLog, exVars, srvVars, shutVars, uiVars>>
  /\ \/ \* the request has no file part: if (!req.file) return res.status(400)
        /\ Respond(r, 400, NoDecision, "No video file uploaded")
        /\ vName' = [vName EXCEPT ![r] = ""]
        /\ UNCHANGED <<uploadsDir, returnedLog>>
     \/ \* fileFilter: cb(new Error(...), false); multer passes the error to
        \* next(), no error middleware is registered and Express' default
        \* handler answers 500 (the error has no status); nothing is stored
        \* and the route handler is not called
        /\ \E mimetype \in Mimes \ allowedMimes :
             RespondWith(r, 500, NoDecision, "", ErrFileType)
        /\ vName' = [vName EXCEPT ![r] = ""]
        /\ UNCHANGED <<uploadsDir, returnedLog>>
     \/ \E mimetype \in Mimes \cap allowedMimes, name \in names, bodySport \in sports \cup {""} :
          LET sport == SportOf(bodySport)
              cacheKey == CacheKey(name, sport)
          IN /\ uploadsDir' = uploadsDir \cup {name}
             /\ vName' = [vName EXCEPT ![r] = name]
             /\ vSport' = [vSport EXCEPT ![r] = sport]
             /\ reqSport' = [reqSport EXCEPT ![r] = bodySport]
             /\ serial' = [serial EXCEPT ![r] = nUploads + 1]
             /\ status' = [status EXCEPT ![r] = 0]
             /\ body' = [body EXCEPT ![r] = NoDecision]
             /\ details' = [details EXCEPT ![r] = ""]
             /\ seenReturned' = [seenReturned EXCEPT ![r] =
                                   {p[2] : p \in {q \in returnedLog : q[1] = cacheKey}}]
             /\ err' = [err EXCEPT ![r] = ""]
             /\ UNCHANGED <<metadata, nFrames, idx, analyses, finalDecision, modelCalls, callLog,
                            videoAnalysis, multimodalPrompt>>
             /\ IF cacheKey \in DOMAIN analysisCache
                THEN \* return this.analysisCache.get(cacheKey)
                     /\ pc' = [pc EXCEPT ![r] = "removeUpload"]
                     /\ ret' = [ret EXCEPT ![r] = analysisCache[cacheKey]]
                     /\ returnedLog' = returnedLog \cup {<<cacheKey, analysisCache[cacheKey].id>>}
                     /\ UNCHANGED trace
                ELSE \* await this.videoProcessor.getVideoMetadata(videoPath)
                     /\ pc' = [pc EXCEPT ![r] = "metadata"]
                     /\ trace' = [trace EXCEPT ![r] = <<"metadata">>]
                     /\ UNCHANGED <<ret, returnedLog>>

(***************************************************************************)
(* processVideo, one action per await.                                     *)
(***************************************************************************)
\* ffprobe answers
MetadataDone(r, metas) ==
  /\ pc[r] = "metadata"
  /\ \/ /\ vName[r] \in uploadsDir
        /\ \E m \in metas : metadata' = [metadata EXCEPT ![r] = m]
        /\ pc' = [pc EXCEPT ![r] = "prepare"]
        /\ trace' = [trace EXCEPT ![r] = Append(@, "prepare")]
        /\ UNCHANGED err
     \/ /\ Throw(r, ErrMetadata)
        /\ UNCHANGED <<metadata, trace>>
  /\ UNCHANGED <<vName, vSport, reqSport, nFrames, frameDir, dirRemovals, uploadRemovals, idx, analyses, finalDecision, ret,
                 status, body, details, serial, modelCalls, callLog, seenReturned, videoAnalysis, multimodalPrompt, sharedVars, exVars, srvVars, shutVars, uiVars>>

\* prepareVideoForProcessing: fs.readFile answers; extractKeyFrames starts
\* with fs.ensureDir(outputDir)
PrepareDone(r) ==
  /\ pc[r] = "prepare"
  /\ \/ /\ vName[r] \in uploadsDir
        /\ pc' = [pc EXCEPT ![r] = "ensureDir"]
        /\ trace' = [trace EXCEPT ![r] = Append(@, "extract")]
        /\ UNCHANGED err
     \/ /\ Throw(r, ErrPrepare)
        /\ UNCHANGED trace
  /\ UNCHANGED <<vName, vSport, reqSport, metadata, nFrames, frameDir, dirRemovals, uploadRemovals, idx, analyses, finalDecision, ret,
                 status, body, details, serial, modelCalls, callLog, seenReturned, videoAnalysis, multimodalPrompt, sharedVars, exVars, srvVars, shutVars, uiVars>>

\* fs.ensureDir(outputDir) answers; ffmpeg is started
EnsureDirDone(r) ==
  /\ pc[r] = "ensureDir"
  /\ \/ /\ frameDir' = [frameDir EXCEPT ![r] = "exists"]
        /\ pc' = [pc EXCEPT ![r] = "ffmpeg"]
        /\ UNCHANGED err
     \/ /\ Throw(r, ErrEnsureDir)
        /\ UNCHANGED frameDir
  /\ UNCHANGED <<vName, vSport, reqSport, metadata, nFrames, idx, analyses, finalDecision, ret,
                 status, body, details, serial, trace, modelCalls, callLog, seenReturned,
                 videoAnalysis, multimodalPrompt, dirRemovals, uploadRemovals,
                 sharedVars, exVars, srvVars, shutVars, uiVars>>

\* mutant: every frame ffmpeg wrote is kept, without slice(0, maxFrames)
FfmpegDone_NoSlice(r, maxWritten) ==
  /\ pc[r] = "ffmpeg"
  /\ \/ /\ vName[r] \in uploadsDir
        /\ \E written \in 0..maxWritten :
             LET n == written
             IN /\ nFrames' = [nFrames EXCEPT ![r] = n]
                /\ IF n = 0
                   THEN /\ pc' = [pc EXCEPT ![r] = "stage2"]
                        /\ trace' = [trace EXCEPT ![r] = @ \o <<"stage1", "stage2">>]
                   ELSE /\ pc' = [pc EXCEPT ![r] = "stage1"]
                        /\ trace' = [trace EXCEPT ![r] = Append(@, "stage1")]
        /\ UNCHANGED err
     \/ /\ Throw(r, ErrFfmpeg)
        /\ UNCHANGED <<nFrames, trace>>
  /\ UNCHANGED <<vName, vSport, reqSport, metadata, frameDir, dirRemovals, uploadRemovals, idx, analyses, finalDecision, ret,
                 status, body, details, serial, modelCalls, callLog, seenReturned, videoAnalysis, multimodalPrompt, sharedVars, exVars, srvVars, shutVars, uiVars>>

\* ffmpeg ends (n frames written, the first KeyFrameCap of them kept) or
\* fails; analyzeFramesWithVision starts, and with no frame it returns at
\* once and Stage 2 is called
FfmpegDone(r, maxWritten) ==
  /\ pc[r] = "ffmpeg"
  /\ \/ /\ vName[r] \in uploadsDir
        /\ \E written \in 0..maxWritten :
             LET n == Min(written, KeyFrameCap)
             IN /\ nFrames' = [nFrames EXCEPT ![r] = n]
                /\ IF n = 0
                   THEN /\ pc' = [pc EXCEPT ![r] = "stage2"]
                        /\ trace' = [trace EXCEPT ![r] = @ \o <<"stage1", "stage2">>]
                   ELSE /\ pc' = [pc EXCEPT ![r] = "stage1"]
                        /\ trace' = [trace EXCEPT ![r] = Append(@, "stage1")]
        /\ UNCHANGED err
     \/ /\ Throw(r, ErrFfmpeg)
        /\ UNCHANGED <<nFrames, trace>>
  /\ UNCHANGED <<vName, vSport, reqSport, metadata, frameDir, dirRemovals, uploadRemovals, idx, analyses, finalDecision, ret,
                 status, body, details, serial, modelCalls, callLog, seenReturned, videoAnalysis, multimodalPrompt, sharedVars, exVars, srvVars, shutVars, uiVars>>

\* mutant: the loop body without its try/catch, a frame's error leaves the stage
VisionFrame_Abort(r, outcomes) ==
  /\ pc[r] = "stage1"
  /\ idx[r] < nFrames[r]
  /\ \/ /\ analyses' = [analyses EXCEPT ![r] =
               Append(@, [frameNumber |-> idx[r] + 1, analysis |-> "visual evidence",
                          error |-> ""])]
        /\ modelCalls' = [modelCalls EXCEPT ![r] = @ + 1]
        /\ callLog' = [callLog EXCEPT ![r] = Append(@, <<"vision", idx[r] + 1>>)]
        /\ idx' = [idx EXCEPT ![r] = @ + 1]
        /\ IF idx[r] + 1 = nFrames[r]
           THEN /\ pc' = [pc EXCEPT ![r] = "stage2"]
                /\ trace' = [trace EXCEPT ![r] = Append(@, "stage2")]
           ELSE UNCHANGED <<pc, trace>>
        /\ UNCHANGED err
     \/ /\ Throw(r, ErrVision)
        /\ modelCalls' = [modelCalls EXCEPT ![r] = @ + 1]
        /\ callLog' = [callLog EXCEPT ![r] = Append(@, <<"vision", idx[r] + 1>>)]
        /\ UNCHANGED <<analyses, idx, trace>>
  /\ UNCHANGED <<vName, vSport, reqSport, metadata, nFrames, frameDir, dirRemovals, uploadRemovals, finalDecision, ret,
                 status, body, details, serial, seenReturned, videoAnalysis, multimodalPrompt, sharedVars, exVars, srvVars, shutVars, uiVars>>

\* one iteration of the loop of analyzeFramesWithVision: frameToBase64, then
\* visionModel.generateContent; either may throw into the loop's own catch
VisionFrame(r, outcomes) ==
  /\ pc[r] = "stage1"
  /\ idx[r] < nFrames[r]
  /\ \E outcome \in outcomes :
       /\ analyses' = [analyses EXCEPT ![r] =
            Append(@, IF outcome = "ok"
                      THEN [frameNumber |-> idx[r] + 1, analysis |-> "visual evidence",
                            error |-> ""]
                      ELSE [frameNumber |-> idx[r] + 1, analysis |-> "Frame analysis failed",
                            error |-> IF outcome = "readFailed" THEN ErrFrameRead ELSE ErrVision])]
       /\ modelCalls' = [modelCalls EXCEPT ![r] = IF outcome = "readFailed" THEN @ ELSE @ + 1]
       /\ callLog' = [callLog EXCEPT ![r] =
            IF outcome = "readFailed" THEN @ ELSE Append(@, <<"vision", idx[r] + 1>>)]
  /\ idx' = [idx EXCEPT ![r] = @ + 1]
  /\ IF idx[r] + 1 = nFrames[r]
     THEN /\ pc' = [pc EXCEPT ![r] = "stage2"]
          /\ trace' = [trace EXCEPT ![r] = Append(@, "stage2")]
     ELSE UNCHANGED <<pc, trace>>
  /\ UNCHANGED <<vName, vSport, reqSport, metadata, nFrames, frameDir, dirRemovals, uploadRemovals, finalDecision, ret, err,
                 status, body, details, serial, seenReturned, videoAnalysis, multimodalPrompt, sharedVars, exVars, srvVars, shutVars, uiVars>>

\* mutant: after Stage 2 the final decision is asked for, Stage 3 skipped
Stage2Done_SkipsStage3(r, videoTexts) ==
  /\ pc[r] = "stage2"
  /\ modelCalls' = [modelCalls EXCEPT ![r] = @ + 1]
  /\ callLog' = [callLog EXCEPT ![r] = Append(@, <<"video", 0>>)]
  /\ \/ /\ \E text \in videoTexts : videoAnalysis' = [videoAnalysis EXCEPT ![r] = text]
        /\ pc' = [pc EXCEPT ![r] = "stage4"]
        /\ trace' = [trace EXCEPT ![r] = Append(@, "stage4")]
        /\ UNCHANGED <<err, multimodalPrompt>>
     \/ /\ Throw(r, ErrStage2)
        /\ UNCHANGED <<trace, videoAnalysis, multimodalPrompt>>
  /\ UNCHANGED <<vName, vSport, reqSport, metadata, nFrames, frameDir, dirRemovals, uploadRemovals, idx,
                 analyses, finalDecision, ret, status, body, details, serial, seenReturned,
                 sharedVars, exVars, srvVars, shutVars, uiVars>>

\* analyzeVideoDirectly: videoModel.generateContent answers
Stage2Done(r, videoTexts) ==
  /\ pc[r] = "stage2"
  /\ modelCalls' = [modelCalls EXCEPT ![r] = @ + 1]
  /\ callLog' = [callLog EXCEPT ![r] = Append(@, <<"video", 0>>)]
  /\ \/ /\ \E text \in videoTexts :
             /\ videoAnalysis' = [videoAnalysis EXCEPT ![r] = text]
             /\ multimodalPrompt' = [multimodalPrompt EXCEPT ![r] =
                                       MultimodalPrompt(analyses[r], text)]
        /\ pc' = [pc EXCEPT ![r] = "stage3"]
        /\ trace' = [trace EXCEPT ![r] = Append(@, "stage3")]
        /\ UNCHANGED err
     \/ /\ Throw(r, ErrStage2)
        /\ UNCHANGED <<trace, videoAnalysis, multimodalPrompt>>
  /\ UNCHANGED <<vName, vSport, reqSport, metadata, nFrames, frameDir, dirRemovals, uploadRemovals, idx,
                 analyses, finalDecision, ret, status, body, details, serial, seenReturned,
                 sharedVars, exVars, srvVars, shutVars, uiVars>>

\* mutant: a failed multimodal call is made a second time
Stage3Done_RetryOnce(r) ==
  /\ pc[r] = "stage3"
  /\ modelCalls' = [modelCalls EXCEPT ![r] = @ + 1]
  /\ callLog' = [callLog EXCEPT ![r] = Append(@, <<"multimodal", 0>>)]
  /\ \/ /\ pc' = [pc EXCEPT ![r] = "stage4"]
        /\ trace' = [trace EXCEPT ![r] = Append(@, "stage4")]
        /\ videoAnalysis' = [videoAnalysis EXCEPT ![r] = ""]
        /\ multimodalPrompt' = [multimodalPrompt EXCEPT ![r] = ""]
        /\ UNCHANGED err
     \/ /\ modelCalls[r] > nFrames[r] + 1
        /\ Throw(r, ErrStage3)
        /\ videoAnalysis' = [videoAnalysis EXCEPT ![r] = ""]
        /\ multimodalPrompt' = [multimodalPrompt EXCEPT ![r] = ""]
        /\ UNCHANGED trace
     \/ /\ modelCalls[r] <= nFrames[r] + 1
        /\ UNCHANGED <<pc, err, trace, videoAnalysis, multimodalPrompt>>
  /\ UNCHANGED <<vName, vSport, reqSport, metadata, nFrames, frameDir, dirRemovals, uploadRemovals, idx,
                 analyses, finalDecision, ret, status, body, details, serial, seenReturned,
                 sharedVars, exVars, srvVars, shutVars, uiVars>>

\* applyRulesWithMultimodal: multimodalModel.generateContent answers; the
\* prompt is gone with the call and videoAnalysis is not read again
Stage3Done(r) ==
  /\ pc[r] = "stage3"
  /\ modelCalls' = [modelCalls EXCEPT ![r] = @ + 1]
  /\ callLog' = [callLog EXCEPT ![r] = Append(@, <<"multimodal", 0>>)]
  /\ videoAnalysis' = [videoAnalysis EXCEPT ![r] = ""]
  /\ multimodalPrompt' = [multimodalPrompt EXCEPT ![r] = ""]
  /\ \/ /\ pc' = [pc EXCEPT ![r] = "stage4"]
        /\ trace' = [trace EXCEPT ![r] = Append(@, "stage4")]
        /\ UNCHANGED err
     \/ /\ Throw(r, ErrStage3)
        /\ UNCHANGED trace
  /\ UNCHANGED <<vName, vSport, reqSport, metadata, nFrames, frameDir, dirRemovals, uploadRemovals, idx,
                 analyses, finalDecision, ret, status, body, details, serial, seenReturned,
                 sharedVars, exVars, srvVars, shutVars, uiVars>>

\* generateLiveDecision: liveModel.generateContent answers and the Decision
\* is built from its text
Stage4Done(r, texts) ==
  /\ pc[r] = "stage4"
  /\ modelCalls' = [modelCalls EXCEPT ![r] = @ + 1]
  /\ callLog' = [callLog EXCEPT ![r] = Append(@, <<"live", 0>>)]
  /\ \/ /\ \E decision \in texts :
             finalDecision' = [finalDecision EXCEPT ![r] =
                generateLiveDecision(serial[r], decision, vSport[r], metadata[r])]
        /\ pc' = [pc EXCEPT ![r] = "cacheWrite"]
        /\ UNCHANGED err
     \/ /\ Throw(r, ErrStage4)
        /\ UNCHANGED finalDecision
  /\ UNCHANGED <<vName, vSport, reqSport, metadata, nFrames, frameDir, dirRemovals, uploadRemovals, idx, analyses, ret,
                 status, body, details, serial, trace, seenReturned, videoAnalysis, multimodalPrompt, sharedVars, exVars, srvVars, shutVars, uiVars>>

\* this.analysisCache.set(cacheKey, finalDecision), then cleanupFrames is
\* called: with no frame path its loop is empty and processVideo returns
CacheWrite(r) ==
  /\ pc[r] = "cacheWrite"
  /\ analysisCache' = MapSet(analysisCache, Key(r), finalDecision[r])
  /\ storedLog' = storedLog \cup {<<Key(r), finalDecision[r].id>>}
  /\ trace' = [trace EXCEPT ![r] = @ \o <<"cacheWrite", "cleanup">>]
  /\ idx' = [idx EXCEPT ![r] = 0]
  /\ IF nFrames[r] = 0
     THEN Return(r, finalDecision[r])
     ELSE /\ pc' = [pc EXCEPT ![r] = "cleanup"]
          /\ UNCHANGED <<ret, returnedLog>>
  /\ UNCHANGED <<vName, vSport, reqSport, metadata, nFrames, frameDir, dirRemovals, uploadRemovals, analyses, finalDecision, err,
                 status, body, details, serial, modelCalls, callLog, seenReturned, videoAnalysis, multimodalPrompt,
                 uploadsDir, nUploads, exVars, srvVars, shutVars, uiVars>>

\* mutant: cleanupFrames without its try/catch, a failed removal is thrown
CleanupStep_Throws(r) ==
  /\ pc[r] = "cleanup"
  /\ idx[r] < nFrames[r]
  /\ \/ /\ frameDir' = RemoveDir(outputDir(r))
        /\ dirRemovals' = [dirRemovals EXCEPT ![r] = Append(@, "ok")]
        /\ idx' = [idx EXCEPT ![r] = @ + 1]
        /\ IF idx[r] + 1 = nFrames[r]
           THEN Return(r, finalDecision[r])
           ELSE UNCHANGED <<pc, ret, returnedLog>>
        /\ UNCHANGED err
     \/ /\ dirRemovals' = [dirRemovals EXCEPT ![r] = Append(@, "failed")]
        /\ UNCHANGED <<frameDir, idx, ret, returnedLog>>
        /\ Throw(r, "EBUSY: resource busy or locked, rmdir")
  /\ UNCHANGED <<vName, vSport, reqSport, metadata, nFrames, analyses, finalDecision,
                 status, body, details, serial, trace, modelCalls, callLog, seenReturned,
                 videoAnalysis, multimodalPrompt, uploadRemovals,
                 analysisCache, uploadsDir, nUploads, storedLog, exVars, srvVars, shutVars, uiVars>>

\* cleanupFrames: fs.remove(path.dirname(framePath)) answers for one frame
\* path; a failure ends the loop in cleanupFrames' own catch
CleanupStep(r) ==
  /\ pc[r] = "cleanup"
  /\ idx[r] < nFrames[r]
  /\ \/ /\ frameDir' = RemoveDir(outputDir(r))
        /\ dirRemovals' = [dirRemovals EXCEPT ![r] = Append(@, "ok")]
        /\ idx' = [idx EXCEPT ![r] = @ + 1]
        /\ IF idx[r] + 1 = nFrames[r]
           THEN Return(r, finalDecision[r])
           ELSE UNCHANGED <<pc, ret, returnedLog>>
     \/ /\ dirRemovals' = [dirRemovals EXCEPT ![r] = Append(@, "failed")]
        /\ UNCHANGED <<frameDir, idx>>
        /\ Return(r, finalDecision[r])
  /\ UNCHANGED <<vName, vSport, reqSport, metadata, nFrames, analyses, finalDecision, err,
                 status, body, details, serial, trace, modelCalls, callLog, seenReturned,
                 videoAnalysis, multimodalPrompt, uploadRemovals,
                 analysisCache, uploadsDir, nUploads, storedLog, exVars, srvVars, shutVars, uiVars>>

(***************************************************************************)
(* The handler after processVideo.                                         *)
(***************************************************************************)
\* mutant: the 200 response sent without removing the uploaded file
RemoveUploadDone_KeepsFile(r) ==
  /\ pc[r] = "removeUpload"
  /\ Respond(r, 200, ret[r], "")
  /\ UNCHANGED <<vName, frameDir, dirRemovals, uploadRemovals, analysisCache, uploadsDir,
                 nUploads, returnedLog, storedLog, exVars, srvVars, shutVars, uiVars>>

\* await fs.remove(videoPath) answers; res.json({success: true, decision})
RemoveUploadDone(r) ==
  /\ pc[r] = "removeUpload"
  /\ \/ /\ uploadsDir' = uploadsDir \ {vName[r]}
        /\ uploadRemovals' = [uploadRemovals EXCEPT ![r] = Append(@, "ok")]
        /\ Respond(r, 200, ret[r], "")
     \/ /\ Throw(r, ErrRemove)
        /\ uploadRemovals' = [uploadRemovals EXCEPT ![r] = Append(@, "failed")]
        /\ UNCHANGED <<uploadsDir, status, body, details, vSport, reqSport, metadata, nFrames, idx,
                       analyses, finalDecision, ret, serial, trace, modelCalls, callLog, seenReturned, videoAnalysis, multimodalPrompt>>
  /\ UNCHANGED <<vName, frameDir, dirRemovals, analysisCache, nUploads, returnedLog, storedLog,
                 exVars, srvVars, shutVars, uiVars>>

\* mutant: the 500 body without the error's message
CatchRemoveDone_NoDetails(r) ==
  /\ pc[r] = "catch"
  /\ \/ /\ uploadsDir' = uploadsDir \ {vName[r]}
        /\ uploadRemovals' = [uploadRemovals EXCEPT ![r] = Append(@, "ok")]
     \/ /\ uploadRemovals' = [uploadRemovals EXCEPT ![r] = Append(@, "failed")]
        /\ UNCHANGED uploadsDir
  /\ Respond(r, 500, NoDecision, "")
  /\ UNCHANGED <<vName, frameDir, dirRemovals, analysisCache, nUploads, returnedLog, storedLog,
                 exVars, srvVars, shutVars, uiVars>>

\* catch (error): fs.remove(req.file.path) answers (its own failure is only
\* logged); res.status(500).json({error, details: error.message})
CatchRemoveDone(r) ==
  /\ pc[r] = "catch"
  /\ \/ /\ uploadsDir' = uploadsDir \ {vName[r]}
        /\ uploadRemovals' = [uploadRemovals EXCEPT ![r] = Append(@, "ok")]
     \/ /\ uploadRemovals' = [uploadRemovals EXCEPT ![r] = Append(@, "failed")]
        /\ UNCHANGED uploadsDir
  /\ Respond(r, 500, NoDecision, err[r])
  /\ UNCHANGED <<vName, frameDir, dirRemovals, analysisCache, nUploads, returnedLog, storedLog,
                 exVars, srvVars, shutVars, uiVars>>

(***************************************************************************)
(* Specifications.                                                         *)
(***************************************************************************)
Next ==
  \E r \in Reqs :
    \/ UploadVideo(r, Names, Sports, MaxUploads)
    \/ MetadataDone(r, Metadatas)
    \/ PrepareDone(r)
    \/ EnsureDirDone(r)
    \/ FfmpegDone(r, MaxVideoFrames)
    \/ VisionFrame(r, VisionOutcomes)
    \/ Stage2Done(r, VideoTexts)
    \/ Stage3Done(r)
    \/ Stage4Done(r, Texts)
    \/ CacheWrite(r)
    \/ CleanupStep(r)
    \/ RemoveUploadDone(r)
    \/ CatchRemoveDone(r)

Spec == Init /\ [][Next]_vars

\* the same server with several requests in flight at once, on one video
InitConc ==
  /\ InitSlots(ConcSlots)
  /\ InitShutOff
  /\ InitUIOff
  /\ InitEx
  /\ InitListening

NextConc ==
  \E r \in ConcSlots :
    \/ UploadVideo(r, ConcNames, ConcSports, ConcUploads)
    \/ MetadataDone(r, ConcMetadatas)
    \/ PrepareDone(r)
    \/ EnsureDirDone(r)
    \/ FfmpegDone(r, ConcVideoFrames)
    \/ VisionFrame(r, VisionOutcomes)
    \/ Stage2Done(r, ConcVideoTexts)
    \/ Stage3Done(r)
    \/ Stage4Done(r, ConcTexts)
    \/ CacheWrite(r)
    \/ CleanupStep(r)
    \/ RemoveUploadDone(r)
    \/ CatchRemoveDone(r)

SpecConc == InitConc /\ [][NextConc]_vars

\* the cache keys of two processVideo calls
InitKeys ==
  /\ InitSlots(Reqs)
  /\ InitShutOff
  /\ InitUIOff
  /\ InitListening
  /\ exText = ""
  /\ exSport = ""
  /\ exDecision = NoDecision
  /\ exRules = NoRules
  /\ exFormat = NoFormat
  /\ exArgs \in KeyArgs \X KeyArgs
  /\ exKeys = <<>>

DeriveKeys ==
  /\ exKeys = <<>>
  /\ exArgs # <<>>
  /\ exKeys' = [i \in 1..Len(exArgs) |-> CacheKey(exArgs[i][1], exArgs[i][2])]
  /\ UNCHANGED <<reqVars, sharedVars, srvVars, shutVars, uiVars, exText, exSport, exDecision, exRules,
                 exFormat, exArgs>>

NextKeys == DeriveKeys

SpecKeys == InitKeys /\ [][NextKeys]_vars

\* two requests in flight together, each upload stored under the name multer
\* generates for it
IsoSlots == {1, 2}

InitIso ==
  /\ InitSlots(IsoSlots)
  /\ InitShutOff
  /\ InitUIOff
  /\ InitEx
  /\ InitListening

NextIso ==
  \E r \in IsoSlots :
    \/ UploadVideo(r, {Filename(nUploads + 1)}, ConcSports, IsoUploads)
    \/ MetadataDone(r, ConcMetadatas)
    \/ PrepareDone(r)
    \/ EnsureDirDone(r)
    \/ FfmpegDone(r, ConcVideoFrames)
    \/ VisionFrame(r, IsoOutcomes)
    \/ Stage2Done(r, ConcVideoTexts)
    \/ Stage3Done(r)
    \/ Stage4Done(r, ConcTexts)
    \/ CacheWrite(r)
    \/ CleanupStep(r)
    \/ RemoveUploadDone(r)
    \/ CatchRemoveDone(r)

SpecIso == InitIso /\ [][NextIso]_vars

\* the parsers applied to bounded texts
InitExtract ==
  /\ InitSlots(Reqs)
  /\ InitShutOff
  /\ InitUIOff
  /\ InitListening
  /\ exText \in ExTexts
  /\ exSport \in ExSports
  /\ exDecision = NoDecision
  /\ exRules = NoRules
  /\ exFormat = NoFormat
  /\ exArgs = <<>>
  /\ exKeys = <<>>

ParseDecision ==
  /\ exDecision = NoDecision
  /\ exDecision' = generateLiveDecision(1, exText, exSport, ExMetadata)
  /\ UNCHANGED <<reqVars, sharedVars, srvVars, shutVars, uiVars, exText, exSport, exRules, exFormat,
                 exArgs, exKeys>>

NextExtract == ParseDecision

SpecExtract == InitExtract /\ [][NextExtract]_vars

\* extractConfidenceLevel alone (through generateLiveDecision), on texts
\* made of fragments of the confidence patterns
InitConfidence ==
  /\ InitSlots(Reqs)
  /\ InitShutOff
  /\ InitUIOff
  /\ InitListening
  /\ exText \in ConfTexts
  /\ exSport = "cricket"
  /\ exDecision = NoDecision
  /\ exRules = NoRules
  /\ exFormat = NoFormat
  /\ exArgs = <<>>
  /\ exKeys = <<>>

SpecConfidence == InitConfidence /\ [][NextExtract]_vars

\* extractFinalCall on texts made of tokens of its priority list, for every
\* sport
InitCalls ==
  /\ InitSlots(Reqs)
  /\ InitShutOff
  /\ InitUIOff
  /\ InitListening
  /\ exText \in CallTexts
  /\ exSport \in ExSports
  /\ exDecision = NoDecision
  /\ exRules = NoRules
  /\ exFormat = NoFormat
  /\ exArgs = <<>>
  /\ exKeys = <<>>

SpecCalls == InitCalls /\ [][NextExtract]_vars

\* getRulesForSport alone, on sport identifiers made of pieces
InitRules ==
  /\ InitSlots(Reqs)
  /\ InitShutOff
  /\ InitUIOff
  /\ InitListening
  /\ exText = ""
  /\ exSport \in RuleSports
  /\ exDecision = NoDecision
  /\ exRules = NoRules
  /\ exFormat = NoFormat
  /\ exArgs = <<>>
  /\ exKeys = <<>>

LookupRules ==
  /\ exRules = NoRules
  /\ exRules' = getRulesForSport(exSport)
  /\ UNCHANGED <<reqVars, sharedVars, srvVars, shutVars, uiVars, exText, exSport, exDecision, exFormat,
                 exArgs, exKeys>>

FormatRules ==
  /\ exFormat = NoFormat
  /\ exFormat' = formatRulesForAI(exSport)
  /\ UNCHANGED <<reqVars, sharedVars, srvVars, shutVars, uiVars, exText, exSport, exDecision, exRules,
                 exArgs, exKeys>>

NextRules == LookupRules \/ FormatRules

SpecRules == InitRules /\ [][NextRules]_vars

\* the server from the start of the process: server.js is loaded with or
\* without GEMINI_API_KEY in the environment, then serves one upload at a time
InitServer ==
  /\ InitSlots(Reqs)
  /\ InitShutOff
  /\ InitUIOff
  /\ InitEx
  /\ apiKey \in BOOLEAN
  /\ server = "loading"
  /\ health = NoHealth

\* server.js runs top to bottom: new UmpireAgent() throws without the key
\* and nothing catches it; with the key app.listen is reached
LoadServer ==
  /\ server = "loading"
  /\ server' = IF apiKey THEN "listening" ELSE "crashed"
  /\ UNCHANGED <<reqVars, sharedVars, exVars, apiKey, health, shutVars, uiVars>>

\* GET /api/health
Health ==
  /\ server = "listening"
  /\ health' = [status |-> 200, geminiConfigured |-> apiKey]
  /\ UNCHANGED <<reqVars, sharedVars, exVars, apiKey, server, shutVars, uiVars>>

NextServer ==
  \/ LoadServer
  \/ Health
  \/ \E r \in Reqs :
       \/ UploadVideo(r, ConcNames, ConcSports, MaxUploads)
       \/ MetadataDone(r, ConcMetadatas)
       \/ PrepareDone(r)
       \/ EnsureDirDone(r)
       \/ FfmpegDone(r, ConcVideoFrames)
       \/ VisionFrame(r, VisionOutcomes)
       \/ Stage2Done(r, ConcVideoTexts)
       \/ Stage3Done(r)
       \/ Stage4Done(r, ConcTexts)
       \/ CacheWrite(r)
       \/ CleanupStep(r)
       \/ RemoveUploadDone(r)
       \/ CatchRemoveDone(r)

SpecServer == InitServer /\ [][NextServer]_vars

\* the server on videos of up to LongVideoFrames frames at the sampling rate
NextLong ==
  \E r \in Reqs :
    \/ UploadVideo(r, ConcNames, ConcSports, LongUploads)
    \/ MetadataDone(r, ConcMetadatas)
    \/ PrepareDone(r)
    \/ EnsureDirDone(r)
    \/ FfmpegDone(r, LongVideoFrames)
    \/ VisionFrame(r, LongOutcomes)
    \/ Stage2Done(r, ConcVideoTexts)
    \/ Stage3Done(r)
    \/ Stage4Done(r, ConcTexts)
    \/ CacheWrite(r)
    \/ CleanupStep(r)
    \/ RemoveUploadDone(r)
    \/ CatchRemoveDone(r)

SpecLong == Init /\ [][NextLong]_vars


(***************************************************************************)
(* server.js: the signal handlers; fileUtils.js: cleanupTempFiles.         *)
(***************************************************************************)
\* entries older than these many minutes are removed: one hour in temp/,
\* two hours in uploads/
TempMaxAge == 60
UploadMaxAge == 120

\* what temp/ and uploads/ can hold when the process is signalled
TempFiles == {<<"keyframes_1", 30>>, <<"keyframes_2", 90>>}
UploadFiles == {<<"video-1.mp4", 90>>, <<"video-2.mp4", 150>>}
Signals == {"SIGTERM", "SIGINT"}

\* a cleanupTempFiles call up to its first await, fs.pathExists(tempDir)
cleanupTempFiles == [dir |-> "temp", at |-> "pathExists", todo |-> {}, file |-> <<>>]

Finished(c) == c.at \in {"done", "failed"}
EntriesOf(dir) == IF dir = "temp" THEN tempEntries ELSE uploadEntries
MaxAgeOf(dir) == IF dir = "temp" THEN TempMaxAge ELSE UploadMaxAge

\* the call goes on to the uploads directory, or returns after it
NextDir(c) ==
  IF c.dir = "temp" THEN [dir |-> "uploads", at |-> "pathExists", todo |-> {}, file |-> <<>>]
  ELSE [c EXCEPT !.at = "done", !.todo = {}, !.file = <<>>]

\* the catch of cleanupTempFiles: the error is logged, the call returns
Failed(c) == [c EXCEPT !.at = "failed", !.todo = {}, !.file = <<>>]

InitShutdown ==
  /\ InitSlots(Reqs)
  /\ InitUIOff
  /\ InitEx
  /\ InitListening
  /\ proc = "running"
  /\ signal = ""
  /\ cleanups = <<cleanupTempFiles>>   \* the call at server start
  /\ tempEntries \in SUBSET TempFiles
  /\ uploadEntries \in SUBSET UploadFiles

\* await fs.pathExists(dir) answers
PathExistsDone(i) ==
  /\ proc = "running"
  /\ i \in DOMAIN cleanups
  /\ cleanups[i].at = "pathExists"
  /\ \/ cleanups' = [cleanups EXCEPT ![i].at = "readdir"]
     \/ /\ EntriesOf(cleanups[i].dir) = {}     \* the directory is not there
        /\ cleanups' = [cleanups EXCEPT ![i] = NextDir(@)]
  /\ UNCHANGED <<reqVars, sharedVars, exVars, srvVars, uiVars, proc, signal,
                 tempEntries, uploadEntries>>

\* await fs.readdir(dir) answers
ReaddirDone(i) ==
  /\ proc = "running"
  /\ i \in DOMAIN cleanups
  /\ cleanups[i].at = "readdir"
  /\ cleanups' = [cleanups EXCEPT ![i].at = "loop", ![i].todo = EntriesOf(cleanups[i].dir)]
  /\ UNCHANGED <<reqVars, sharedVars, exVars, srvVars, uiVars, proc, signal,
                 tempEntries, uploadEntries>>

\* for (const file of files): await fs.stat(filePath) answers, or the list is
\* exhausted
StatDone(i) ==
  /\ proc = "running"
  /\ i \in DOMAIN cleanups
  /\ cleanups[i].at = "loop"
  /\ LET c == cleanups[i]
     IN IF c.todo = {}
        THEN cleanups' = [cleanups EXCEPT ![i] = NextDir(c)]
        ELSE \E f \in c.todo :
               IF f \notin EntriesOf(c.dir)
               THEN \* removed meanwhile by another call: stat rejects with ENOENT
                    cleanups' = [cleanups EXCEPT ![i] = Failed(c)]
               ELSE IF f[2] > MaxAgeOf(c.dir)
               THEN cleanups' = [cleanups EXCEPT ![i].at = "remove", ![i].file = f]
               ELSE cleanups' = [cleanups EXCEPT ![i].todo = c.todo \ {f}]
  /\ UNCHANGED <<reqVars, sharedVars, exVars, srvVars, uiVars, proc, signal,
                 tempEntries, uploadEntries>>

\* await fs.remove(filePath) answers
RemoveDone(i) ==
  /\ proc = "running"
  /\ i \in DOMAIN cleanups
  /\ cleanups[i].at = "remove"
  /\ LET c == cleanups[i]
     IN \/ /\ cleanups' = [cleanups EXCEPT ![i].at = "loop", ![i].todo = c.todo \ {c.file},
                                            ![i].file = <<>>]
           /\ IF c.dir = "temp"
              THEN tempEntries' = tempEntries \ {c.file} /\ UNCHANGED uploadEntries
              ELSE uploadEntries' = uploadEntries \ {c.file} /\ UNCHANGED tempEntries
        \/ /\ cleanups' = [cleanups EXCEPT ![i] = Failed(c)]
           /\ UNCHANGED <<tempEntries, uploadEntries>>
  /\ UNCHANGED <<reqVars, sharedVars, exVars, srvVars, uiVars, proc, signal>>

\* process.on(sig, async () => { cleanupTempFiles(); process.exit(0); }):
\* the call is not awaited, it runs to its first await and the process exits
Shutdown(sig) ==
  /\ proc = "running"
  /\ signal' = sig
  /\ cleanups' = Append(cleanups, cleanupTempFiles)
  /\ proc' = "exited"
  /\ UNCHANGED <<reqVars, sharedVars, exVars, srvVars, uiVars, tempEntries, uploadEntries>>

NextShutdown ==
  \/ \E i \in 1..2 : PathExistsDone(i)
  \/ \E i \in 1..2 : ReaddirDone(i)
  \/ \E i \in 1..2 : StatDone(i)
  \/ \E i \in 1..2 : RemoveDone(i)
  \/ \E sig \in Signals : Shutdown(sig)

SpecShutdown == InitShutdown /\ [][NextShutdown]_vars

(***************************************************************************)
(* public/script.js: the page. One action per event handler, timer or      *)
(* answered fetch; the texts written into the page are not followed. A     *)
(* button takes clicks while the section named after it is shown.          *)
(***************************************************************************)
Sections == {"uploadSection", "processingSection", "resultsSection", "errorSection"}
\* const steps = ['step1', 'step2', 'step3', 'step4'], by index
Steps == 1..4
NoClasses == [k \in Steps |-> {}]
Visible == Sections \ hidden

\* mutant: the target is shown, the other sections are left as they are
showSection_NoHide(sectionId) == hidden \ {sectionId}

\* showSection: the hidden sections after the call
showSection(sectionId) == (hidden \cup Sections) \ {sectionId}

\* animateStep at currentStep (counted from 0): the step classes after it
animateStep(currentStep) ==
  IF currentStep < Cardinality(Steps)
  THEN [k \in Steps |->
          IF k = currentStep + 1 THEN stepClasses[k] \cup {"active"}
          ELSE IF k = currentStep THEN (stepClasses[k] \ {"active"}) \cup {"completed"}
          ELSE stepClasses[k]]
  ELSE [stepClasses EXCEPT ![Cardinality(Steps)] = (@ \ {"active"}) \cup {"completed"}]

\* new UmpireUI(): selectedFile = null, the listeners, checkServerHealth up
\* to its fetch; the classes the markup gives the sections are not known
InitUI ==
  /\ InitSlots(Reqs)
  /\ InitShutOff
  /\ InitEx
  /\ InitListening
  /\ selectedFile = FALSE
  /\ analyzeBtnDisabled \in BOOLEAN
  /\ hidden \in SUBSET Sections
  /\ stepClasses = NoClasses
  /\ timers = {}
  /\ uploadFetches = {}
  /\ healthFetch = TRUE
  /\ nAnalyses = 0
  /\ sectionShown = FALSE
  /\ sinceReset = FALSE

\* handleFileSelect with a video file of allowed size (the other files only
\* raise an alert); updateUploadUI
HandleFileSelect ==
  /\ "uploadSection" \in Visible
  /\ selectedFile' = TRUE
  /\ analyzeBtnDisabled' = FALSE
  /\ UNCHANGED <<reqVars, sharedVars, exVars, srvVars, shutVars, hidden, stepClasses, timers,
                 uploadFetches, healthFetch, nAnalyses, sectionShown, sinceReset>>

\* click on analyzeBtn: analyzeVideo up to its await fetch, with the first
\* animateStep of startProcessingAnimation
AnalyzeVideo ==
  /\ "uploadSection" \in Visible
  /\ ~analyzeBtnDisabled
  /\ selectedFile                      \* if (!this.selectedFile) return
  /\ nAnalyses < MaxAnalyses
  /\ nAnalyses' = nAnalyses + 1
  /\ hidden' = showSection("processingSection")
  /\ sectionShown' = TRUE
  /\ stepClasses' = animateStep(0)
  /\ timers' = timers \cup {<<nAnalyses + 1, 1>>}
  /\ uploadFetches' = uploadFetches \cup {nAnalyses + 1}
  /\ sinceReset' = FALSE
  /\ UNCHANGED <<reqVars, sharedVars, exVars, srvVars, shutVars, selectedFile,
                 analyzeBtnDisabled, healthFetch>>

\* setTimeout(animateStep, 2000) fires
TimerFires ==
  \E t \in timers :
    /\ stepClasses' = animateStep(t[2])
    /\ timers' = IF t[2] < Cardinality(Steps)
                 THEN (timers \ {t}) \cup {<<t[1], t[2] + 1>>}
                 ELSE timers \ {t}
    /\ UNCHANGED <<reqVars, sharedVars, exVars, srvVars, shutVars, selectedFile,
                   analyzeBtnDisabled, hidden, uploadFetches, healthFetch, nAnalyses,
                   sectionShown, sinceReset>>

\* the fetch of /api/upload-video is answered: displayResults for a body
\* with success, showError for any other body, a rejected fetch or an error
\* inside displayResults
UploadAnswered ==
  \E id \in uploadFetches, section \in {"resultsSection", "errorSection"} :
    /\ uploadFetches' = uploadFetches \ {id}
    /\ hidden' = showSection(section)
    /\ sectionShown' = TRUE
    /\ UNCHANGED <<reqVars, sharedVars, exVars, srvVars, shutVars, selectedFile,
                   analyzeBtnDisabled, stepClasses, timers, healthFetch, nAnalyses, sinceReset>>

\* the fetch of /api/health is answered: nothing when geminiConfigured,
\* showError otherwise and when the fetch fails
HealthAnswered ==
  /\ healthFetch
  /\ healthFetch' = FALSE
  /\ \/ UNCHANGED <<hidden, sectionShown>>
     \/ /\ hidden' = showSection("errorSection")
        /\ sectionShown' = TRUE
  /\ UNCHANGED <<reqVars, sharedVars, exVars, srvVars, shutVars, selectedFile,
                 analyzeBtnDisabled, stepClasses, timers, uploadFetches, nAnalyses, sinceReset>>

\* click on analyzeAnotherBtn or tryAgainBtn: resetInterface
ResetInterface ==
  /\ Visible \cap {"resultsSection", "errorSection"} # {}
  /\ selectedFile' = FALSE
  /\ analyzeBtnDisabled' = TRUE
  /\ stepClasses' = [k \in Steps |-> stepClasses[k] \ {"active", "completed"}]
  /\ hidden' = showSection("uploadSection")
  /\ sectionShown' = TRUE
  /\ sinceReset' = TRUE
  /\ UNCHANGED <<reqVars, sharedVars, exVars, srvVars, shutVars, timers, uploadFetches,
                 healthFetch, nAnalyses>>

NextUI ==
  \/ HandleFileSelect
  \/ AnalyzeVideo
  \/ TimerFires
  \/ UploadAnswered
  \/ HealthAnswered
  \/ ResetInterface

SpecUI == InitUI /\ [][NextUI]_vars

(***************************************************************************)
(* Properties.                                                             *)
(***************************************************************************)
Slots == DOMAIN pc
Parsed == exDecision # NoDecision
UpperText == toUpperCase(exText)
Range(f) == {f[k] : k \in DOMAIN f}
IsPrefix(a, b) == Len(a) <= Len(b) /\ \A k \in 1..Len(a) : a[k] = b[k]

\* C1: once processVideo has returned a Decision for a cache key, every
\* invocation made later with that key returns that same Decision object and
\* makes no model call, no metadata read and no frame extraction.
C1_CacheIdempotence ==
  \A r \in Slots :
    (pc[r] = "removeUpload" /\ seenReturned[r] # {}) =>
      /\ seenReturned[r] = {ret[r].id}
      /\ modelCalls[r] = 0
      /\ trace[r] = <<>>

\* C2: whenever processVideo has returned or thrown after the request's
\* frame directory was created, that directory has been deleted.
C2_FrameDirDeleted ==
  \A r \in Slots :
    (pc[r] \in {"removeUpload", "catch", "done"} /\ frameDir[r] # "none") =>
      frameDir[r] = "removed"

\* the steps of a run that misses the cache, in the order C3 gives them
ClaimedSteps ==
  <<"metadata", "extract", "stage1", "stage2", "stage3", "stage4", "cacheWrite", "cleanup">>
IsClaimedStep(step) == step \in Range(ClaimedSteps)

\* C3: the steps a run of processVideo has entered are, in order and each
\* once, an initial part of: metadata fetch, frame extraction, Stage 1,
\* Stage 2, Stage 3, Stage 4, cache write, frame cleanup; and the step the
\* run is waiting in is the last one it entered.
C3_StageOrder ==
  \A r \in Slots :
    /\ IsPrefix(SelectSeq(trace[r], IsClaimedStep), ClaimedSteps)
    /\ pc[r] \in {"metadata", "stage1", "stage2", "stage3", "stage4", "cleanup"} =>
         trace[r][Len(trace[r])] = pc[r]

C3_Witness ==
  \E r \in Slots :
    /\ pc[r] = "removeUpload"
    /\ nFrames[r] >= 1
    /\ SelectSeq(trace[r], IsClaimedStep) = ClaimedSteps

\* C4: for sport cricket, a text that contains, in any letter case, both
\* OUT and NOT OUT is given the final call NOT OUT.
C4_CricketNotOut ==
  (Parsed /\ exSport = "cricket" /\ includes(UpperText, "OUT") /\ includes(UpperText, "NOT OUT"))
    => exDecision.finalCall = "NOT OUT"

C4_Witness ==
  /\ Parsed
  /\ exSport = "cricket"
  /\ exText = "not Out"
  /\ exDecision.finalCall = "NOT OUT"

TokenPairs ==
  { <<"NOT OUT", "OUT">>, <<"NO GOAL", "GOAL">>, <<"NO FOUL", "FOUL">>,
    <<"NO SCORE", "SCORE">>, <<"INVALID", "VALID">>, <<"ILLEGAL", "LEGAL">> }

\* C5: for every sport and every pair of a long token and the short token it
\* ends with, a text whose upper-cased form contains the long token is never
\* given the short token as final call.
C5_LongBeforeShort ==
  Parsed =>
    \A p \in TokenPairs : includes(UpperText, p[1]) => exDecision.finalCall # p[2]

C5_Witness ==
  /\ Parsed
  /\ exSport = "football"
  /\ includes(UpperText, "NO GOAL")
  /\ includes(UpperText, "LEGAL")
  /\ exDecision.finalCall = "NO GOAL"

KnownTokens ==
  { "NOT OUT", "OUT", "NO GOAL", "GOAL", "NO FOUL", "FOUL", "NO SCORE", "SCORE",
    "INVALID", "VALID", "ILLEGAL", "LEGAL", "FAULT", "LET", "PENALTY", "FREE KICK" }

\* C6: for every sport, a text whose upper-cased form contains none of the
\* known decision tokens is given the final call DECISION REQUIRED.
C6_FallbackCall ==
  (Parsed /\ \A t \in KnownTokens : ~includes(UpperText, t))
    => exDecision.finalCall = "DECISION REQUIRED"

C6_Witness ==
  /\ Parsed
  /\ exText = "ok. INIL"
  /\ exDecision.finalCall = "DECISION REQUIRED"

\* C7: the final call of a Decision is one of the decisions the sport's
\* profile lists (the general profile for a sport without one) or
\* DECISION REQUIRED.
C7_CallInProfile ==
  Parsed =>
    exDecision.finalCall \in Range(getRulesForSport(exSport).decisions) \cup {"DECISION REQUIRED"}

\* C8: Stage 1 gives every frame one entry, numbered in frame order: the
\* analysis, or the failed-analysis placeholder with the error's message when
\* reading the frame or the vision call failed; after a failed frame the
\* later frames are still analysed, Stage 1 returns all the entries, and no
\* frame's error reaches the request's handler.
C8_FrameFailureIsLocal ==
  \A r \in Slots :
    /\ \A k \in 1..Len(analyses[r]) :
         /\ analyses[r][k].frameNumber = k
         /\ (analyses[r][k].analysis = "Frame analysis failed") <=> (analyses[r][k].error # "")
    /\ pc[r] = "stage1" => (Len(analyses[r]) = idx[r] /\ idx[r] < nFrames[r])
    /\ "stage2" \in Range(trace[r]) => Len(analyses[r]) = nFrames[r]
    /\ err[r] \notin {ErrFrameRead, ErrVision}

C8_Witness ==
  \E r \in Slots :
    /\ pc[r] = "stage2"
    /\ nFrames[r] = 2
    /\ analyses[r][1].analysis = "Frame analysis failed"
    /\ analyses[r][2].error = ""

\* the step a stage error is raised in
FailedStep(msg) ==
  CASE msg = ErrMetadata -> "metadata"
    [] msg = ErrStage2 -> "stage2"
    [] msg = ErrStage3 -> "stage3"
    [] msg = ErrStage4 -> "stage4"
StageErrors == {ErrMetadata, ErrStage2, ErrStage3, ErrStage4}

\* C9: when the metadata fetch, Stage 2, Stage 3 or Stage 4 fails, the step
\* that failed is the last one the run entered, processVideo produces no
\* Decision, and the response is a 500 whose details are the error's message.
C9_StageFailureIs500 ==
  \A r \in Slots :
    /\ (pc[r] = "catch" /\ err[r] \in StageErrors) =>
         /\ trace[r][Len(trace[r])] = FailedStep(err[r])
         /\ finalDecision[r] = NoDecision
         /\ ret[r] = NoDecision
    /\ (pc[r] = "done" /\ err[r] \in StageErrors) =>
         /\ status[r] = 500
         /\ details[r] = err[r]
         /\ body[r] = NoDecision

C9_Witness ==
  \E r \in Slots :
    /\ pc[r] = "done"
    /\ err[r] = ErrStage3
    /\ status[r] = 500
    /\ details[r] = ErrStage3

\* C10: for each cache key at most one Decision is ever stored in the cache,
\* also with several invocations for the key in flight.
C10_OneDecisionPerKey ==
  \A p, q \in storedLog : p[1] = q[1] => p[2] = q[2]

\* a slot whose response is sent and whose request had stored a file
Answered(r) == pc[r] = "done" /\ vName[r] # ""
Last(seq) == seq[Len(seq)]

C12_RemovedExactlyOnce ==
  \A r \in Slots :
    pc[r] = "done" =>
      /\ frameDir[r] # "none" => Len(dirRemovals[r]) = 1
      /\ vName[r] # "" => Len(uploadRemovals[r]) = 1

\* C13: without GEMINI_API_KEY loading the server module does not crash the
\* process: once loaded the server listens, and GET /api/health answers 200
\* with geminiConfigured = false.
C13_ServesWithoutKey ==
  /\ (~apiKey /\ server # "loading") => server = "listening"
  /\ health # NoHealth => health = [status |-> 200, geminiConfigured |-> apiKey]

\* C14: an upload whose MIME type the filter rejects is answered 400 with an
\* error message, and no step of the pipeline runs for it.
C14_BadTypeIs400 ==
  \A r \in Slots :
    (pc[r] = "done" /\ err[r] = ErrFileType) =>
      /\ status[r] = 400
      /\ trace[r] = <<>>
      /\ callLog[r] = <<>>

\* C15: for a sport whose lower-cased form is not a profile key,
\* getRulesForSport returns the general profile.
C15_GeneralFallback ==
  (exRules # NoRules /\ toLowerCase(exSport) \notin ProfileKeys) =>
     exRules = sportsRules["general"]

\* two characters equal up to the case of a letter
SameLetter(a, b) ==
  \/ a = b
  \/ a \in DOMAIN UpperOf /\ UpperOf[a] = b
  \/ b \in DOMAIN UpperOf /\ UpperOf[b] = a

\* pat occurs in text in some mix of upper and lower case
ContainsAnyCase(text, pat) ==
  \E k \in 1..(Len(text) - Len(pat) + 1) :
    \A j \in 1..Len(pat) : SameLetter(CharAt(text, k + j - 1), CharAt(pat, j))

\* C16: a text containing "high confidence" or "confidence: high" in any mix
\* of upper and lower case yields the confidence High.
C16_HighAnyCase ==
  (Parsed /\ (ContainsAnyCase(exText, "high confidence")
                \/ ContainsAnyCase(exText, "confidence: high")))
     => exDecision.confidence = "High"

C16_Witness ==
  /\ Parsed
  /\ includes(exText, "HIGH CONFIDENCE") \/ includes(exText, "Confidence: HIGH")
  /\ exDecision.confidence = "High"

ConfidencePatterns == {"high confidence", "confidence: high", "medium confidence",
                       "confidence: medium", "low confidence", "confidence: low"}

\* C17: the extracted confidence is one of High, Medium, Low, and it is
\* Medium when the text contains none of the six confidence patterns.
C17_ConfidenceDefault ==
  Parsed =>
    /\ exDecision.confidence \in {"High", "Medium", "Low"}
    /\ (\A pat \in ConfidencePatterns : ~ContainsAnyCase(exText, pat))
          => exDecision.confidence = "Medium"

C17_Witness ==
  /\ Parsed
  /\ includes(exText, "confidence:high")
  /\ \A pat \in ConfidencePatterns : ~ContainsAnyCase(exText, pat)
  /\ exDecision.confidence = "Medium"

\* the positions at which tok occurs in text
Occurrences(text, tok) ==
  {k \in 1..(Len(text) - Len(tok) + 1) : SubSeq(text, k, k + Len(tok) - 1) = tok}
FrameTag(k) == "Frame " \o ToString(k) \o ": "

Digits == {"0", "1", "2", "3", "4", "5", "6", "7", "8", "9"}

\* C18: the prompt of Stage 3 holds one entry per extracted frame, Frame 1 to
\* Frame N in ascending order, each with that frame's analysis or its failure
\* placeholder, and right after them the video analysis of Stage 2.
C18_FrameSummaryOrder ==
  \A r \in Slots :
    pc[r] = "stage3" =>
      LET prompt == multimodalPrompt[r]
          n == nFrames[r]
          \* where an entry "Frame <number>" starts in the prompt
          tags == {p \in Occurrences(prompt, "Frame ") : CharAt(prompt, p + 6) \in Digits}
          nth(k) == CHOOSE p \in tags : Cardinality({q \in tags : q < p}) = k - 1
          entry(k) == FrameTag(k) \o analyses[r][k].analysis
          video == Occurrences(prompt, VideoHeading \o videoAnalysis[r])
      IN /\ Len(analyses[r]) = n
         /\ Cardinality(tags) = n
         /\ \A k \in 1..n : SubSeq(prompt, nth(k), nth(k) + Len(entry(k)) - 1) = entry(k)
         /\ Cardinality(video) = 1
         /\ \A p \in tags, v \in video : p < v
         /\ n > 0 => nth(n) + Len(entry(n)) \in video

C18_Witness ==
  \E r \in Slots :
    /\ pc[r] = "stage3"
    /\ nFrames[r] = 2
    /\ analyses[r][1].error # ""
    /\ analyses[r][2].error = ""
    /\ includes(multimodalPrompt[r], "Frame 1: Frame analysis failed")

\* C19: within one request no model call is made twice: at most one vision
\* call per frame and at most one call each for Stage 2, Stage 3 and Stage 4,
\* also after a call has failed.
C19_NoRetry ==
  \A r \in Slots :
    /\ Len(callLog[r]) = modelCalls[r]
    /\ \A i, j \in DOMAIN callLog[r] : callLog[r][i] = callLog[r][j] => i = j
    /\ \A i \in DOMAIN callLog[r] :
         \/ callLog[r][i][1] = "vision" /\ callLog[r][i][2] \in 1..nFrames[r]
         \/ callLog[r][i] \in {<<"video", 0>>, <<"multimodal", 0>>, <<"live", 0>>}

C19_Witness ==
  \E r \in Slots :
    /\ pc[r] = "catch"
    /\ err[r] = ErrStage3
    /\ \E k \in DOMAIN analyses[r] : analyses[r][k].error = ErrVision
    /\ callLog[r] = <<<<"vision", 1>>, <<"video", 0>>, <<"multimodal", 0>>>>

\* C20: a cricket request answered 200 carries decision.sport = "cricket", a
\* finalCall among OUT, NOT OUT, DECISION REQUIRED and a confidence among
\* High, Medium, Low, whatever text Stage 4 produced.
C20_CricketResponse ==
  \A r \in Slots :
    (pc[r] = "done" /\ status[r] = 200 /\ body[r].sport = "cricket") =>
      /\ body[r].finalCall \in {"OUT", "NOT OUT", "DECISION REQUIRED"}
      /\ body[r].confidence \in {"High", "Medium", "Low"}

InFlight(r) == pc[r] \notin {"idle", "done"}

\* C21: a request without a sport field (or with an empty one) is taken into
\* the pipeline with sport "general", and the Decision made or returned for
\* it has sport = "general".
C21_DefaultSport ==
  \A r \in Slots :
    (InFlight(r) /\ reqSport[r] = "") =>
      /\ vSport[r] = "general"
      /\ finalDecision[r] # NoDecision => finalDecision[r].sport = "general"
      /\ ret[r] # NoDecision => ret[r].sport = "general"

C21_Witness ==
  \E r \in Slots :
    /\ pc[r] = "removeUpload"
    /\ reqSport[r] = ""
    /\ ret[r] # NoDecision
    /\ ret[r].sport = "general"

\* C23: whenever processVideo has returned a Decision for a request, the
\* handler answers 200 with that Decision: it never ends in its catch.
C23_DecisionIs200 ==
  \A r \in Slots :
    /\ ret[r] # NoDecision => pc[r] = "removeUpload"
    /\ (pc[r] = "done" /\ err[r] = ErrRemove) => status[r] = 200

\* C24: a request that carries no file is never inside processVideo; it is
\* answered 400 with an error body and no file removal is attempted for it.
C24_NoFileIs400 ==
  \A r \in Slots :
    (vName[r] = "" /\ pc[r] # "idle" /\ err[r] # ErrFileType) =>
      /\ pc[r] = "done"
      /\ status[r] = 400
      /\ details[r] = "No video file uploaded"
      /\ body[r] = NoDecision
      /\ uploadRemovals[r] = <<>>
      /\ dirRemovals[r] = <<>>
      /\ frameDir[r] = "none"

C24_Witness ==
  \E r \in Slots :
    /\ pc[r] = "done"
    /\ vName[r] = ""
    /\ status[r] = 400
    /\ vName[r] \notin uploadsDir
    /\ uploadsDir # {}

PriorityList ==
  <<"NOT OUT", "OUT", "NO GOAL", "GOAL", "NO FOUL", "FOUL", "NO SCORE", "SCORE",
    "INVALID", "VALID", "ILLEGAL", "LEGAL", "FAULT", "LET", "PENALTY", "FREE KICK">>

\* C27: for a sport other than cricket the final call is the first token of
\* the priority list, in list order, that occurs anywhere in the upper-cased
\* text, wherever in the text the tokens stand.
C27_FirstInListOrder ==
  (Parsed /\ exSport # "cricket") =>
    LET upper == UpperText
        present == {i \in 1..Len(PriorityList) : includes(upper, PriorityList[i])}
    IN present # {} =>
         exDecision.finalCall = PriorityList[CHOOSE i \in present : \A j \in present : i <= j]

C27_Witness ==
  /\ Parsed
  /\ exSport = "football"
  /\ exDecision.finalCall = "GOAL"
  /\ \E a \in Occurrences(UpperText, "LET"), b \in Occurrences(UpperText, "GOAL") : a < b

FailedInPipeline(r) == pc[r] = "catch" /\ ret[r] = NoDecision

\* C29: when processVideo fails, the failed call has written nothing into
\* the cache: its key is not cached, so a later call for the key runs the
\* pipeline again.
C29_FailureLeavesCache ==
  \A r \in Slots :
    FailedInPipeline(r) =>
      /\ Key(r) \notin DOMAIN analysisCache
      /\ \A p \in storedLog : p[2] # serial[r]
      /\ finalDecision[r] = NoDecision

C29_Witness ==
  \E r \in Slots :
    /\ FailedInPipeline(r)
    /\ err[r] = ErrStage4
    /\ analysisCache # << >>
    /\ Key(r) \notin DOMAIN analysisCache

VisionCalls(r) == {i \in DOMAIN callLog[r] : callLog[r][i][1] = "vision"}

\* C25: the frame set handed to Stage 1 has at most 8 frames and Stage 1
\* makes at most 8 vision calls, however many frames ffmpeg wrote.
C25_AtMostEightFrames ==
  \A r \in Slots :
    /\ nFrames[r] <= 8
    /\ Len(analyses[r]) <= 8
    /\ Cardinality(VisionCalls(r)) <= 8

C25_Witness ==
  \E r \in Slots :
    /\ pc[r] = "stage2"
    /\ nFrames[r] = 8
    /\ Len(analyses[r]) = 8
    /\ Cardinality(VisionCalls(r)) = 8

\* the profile a sport identifier stands for
ProfileOf(sport) ==
  IF toLowerCase(sport) \in ProfileKeys THEN sportsRules[toLowerCase(sport)]
  ELSE sportsRules["general"]

\* C26: formatRulesForAI returns, for every sport identifier, the same text
\* at every call: the profile's decisions, then its key elements, then every
\* rule by name in declaration order, then the critical decision points in
\* declaration order if and only if the profile defines them.
C26_RulesText ==
  exFormat # NoFormat =>
    /\ ~exFormat.threw
    /\ exFormat = formatRulesForAI(exSport)
    /\ LET text == exFormat.text
           profile == ProfileOf(exSport)
           at(tok) == Occurrences(text, tok)
           ruleTag(i) == "- " \o toUpperCase(profile.rules[i][1]) \o ": "
           pointTag(i) == "* " \o profile.criticalPoints[i] \o "\n"
           nRules == Len(profile.rules)
           nPoints == Len(profile.criticalPoints)
       IN /\ Cardinality(at("Possible Decisions: " \o join(profile.decisions, ", ") \o "\n")) = 1
          /\ Cardinality(at("Key Elements to Look For: "
                              \o join(profile.keyElements, ", ") \o "\n")) = 1
          /\ Cardinality(at("Rules:\n")) = 1
          /\ \A d \in at("Possible Decisions: "), k \in at("Key Elements to Look For: "),
                r \in at("Rules:\n") : d < k /\ k < r
          /\ \A i \in 1..nRules :
               /\ Cardinality(at(ruleTag(i))) = 1
               /\ \A r \in at("Rules:\n"), a \in at(ruleTag(i)) : r < a
               /\ \A j \in 1..(i - 1) : \A a \in at(ruleTag(j)), b \in at(ruleTag(i)) : a < b
          /\ (at("CRITICAL DECISION POINTS:") # {}) <=> (nPoints > 0)
          /\ \A i \in 1..nPoints :
               /\ Cardinality(at(pointTag(i))) = 1
               /\ \A a \in at(ruleTag(nRules)), c \in at("CRITICAL DECISION POINTS:"),
                     b \in at(pointTag(i)) : a < c /\ c < b
               /\ \A j \in 1..(i - 1) : \A a \in at(pointTag(j)), b \in at(pointTag(i)) : a < b

\* C26 with the sport identifiers whose lookup gives a profile (all but those
\* that reach a member of Object.prototype)
C26_RulesTextOfProfiles ==
  toLowerCase(exSport) \notin ObjectPrototypeKeys => C26_RulesText

\* the per-request state of slot r
SlotState(r) ==
  <<pc[r], vName[r], vSport[r], reqSport[r], metadata[r], nFrames[r], idx[r], analyses[r],
    finalDecision[r], ret[r], err[r], status[r], body[r], details[r], serial[r], trace[r],
    modelCalls[r], seenReturned[r], videoAnalysis[r], multimodalPrompt[r], callLog[r],
    dirRemovals[r], uploadRemovals[r]>>

C30_KeyInjective ==
  exKeys # <<>> => (exArgs[1] # exArgs[2] => exKeys[1] # exKeys[2])

\* C31: a text that matches confidence patterns of more than one level gets
\* the level by precedence High, then Medium, then Low, wherever in the text
\* the patterns stand.
C31_ConfidencePrecedence ==
  Parsed =>
    LET text == toLowerCase(exText)
        high == includes(text, "high confidence") \/ includes(text, "confidence: high")
        medium == includes(text, "medium confidence") \/ includes(text, "confidence: medium")
        low == includes(text, "low confidence") \/ includes(text, "confidence: low")
    IN /\ (high /\ (medium \/ low)) => exDecision.confidence = "High"
       /\ (~high /\ medium /\ low) => exDecision.confidence = "Medium"

C31_Witness ==
  /\ Parsed
  /\ exDecision.confidence = "High"
  /\ \E a \in Occurrences(toLowerCase(exText), "low confidence"),
        b \in Occurrences(toLowerCase(exText), "confidence: high") : a < b

\* C32: on SIGTERM or SIGINT the cleanup the shutdown handler started has
\* run to completion when the process exits.
C32_CleanupBeforeExit ==
  proc = "exited" => Finished(cleanups[Len(cleanups)])

\* C33: after resetInterface has run, no processing step carries 'active'
\* or 'completed' until the next analyzeVideo starts, also with animation
\* timers of an earlier analysis still pending.
C33_StepsStayReset ==
  sinceReset => \A k \in Steps : stepClasses[k] = {}

\* C34: once showSection has been called, exactly one of the four sections
\* is visible, after any sequence of events.
C34_OneSectionVisible ==
  sectionShown => Cardinality(Visible) = 1

C34_Witness ==
  /\ sectionShown
  /\ Visible = {"errorSection"}
  /\ uploadFetches # {}
  /\ timers # {}
  /\ ~healthFetch

====
